---- MODULE Spec2Model ----
(***************************************************************************)
(* iface-proxy: a forward proxy (HTTP/1.x and SOCKS5) whose outbound       *)
(* connections are pinned to a named network interface.                    *)
(*                                                                         *)
(* The module models                                                       *)
(*   - util.rs        connect_outbound (the interface-bound dialer) and    *)
(*                    log_throttled (the log rate limiter),                *)
(*   - http_proxy.rs  read_http_headers, split_headers_body,               *)
(*                    parse_request_line, parse_host_from_headers,         *)
(*                    handle_http_proxy (the HTTP/1.x front-end) and       *)
(*                    run_http_proxy (its accept loop),                    *)
(*   - socks5.rs      read_exact_into, handle_socks5 (the SOCKS5           *)
(*                    front-end) and run_socks5_proxy_auth (its accept     *)
(*                    loop with the semaphore and the backoff).            *)
(*                                                                         *)
(* Byte strings are sequences of one-character strings; B("GET") is        *)
(* <<"G","E","T">>.  The byte 0xFF (never valid in UTF-8) is the element   *)
(* "<FF>", and the character U+FFFD is the element "<U+FFFD>".             *)
(***************************************************************************)
EXTENDS Integers, Sequences, FiniteSets, TLC

VARIABLES
    \* ---- the dialer, connect_outbound(host, port, iface) ----
    iface,      \* the configured interface name
    resolver,   \* the address lists lookup_host may answer with
    dpc,        \* position inside connect_outbound
    dhost,      \* argument host
    dport,      \* argument port
    addrs,      \* the resolved addresses (their families), in resolver order
    sa,         \* index of the candidate the for loop is at
    last_err,   \* Option<anyhow::Error>
    dret,       \* the value connect_outbound returned
    sockets,    \* every socket created so far
    syscalls,   \* the socket operations issued so far, in order
    \* ---- one HTTP connection, handle_http_proxy(inbound, iface) ----
    req,        \* the request the client composed (kept for reference)
    cin,        \* bytes the client has still to send
    srv,        \* bytes the upstream server has still to send
    hpc,        \* position inside handle_http_proxy
    buf,        \* read_http_headers: the Vec buf
    parsed,     \* the locals of handle_http_proxy after parsing
    herr,       \* the error handle_http_proxy returned
    toClient,   \* bytes written to inbound
    toUpstream, \* bytes written to outbound
    c2s_done,   \* the relay saw EOF from the client
    s2c_done,   \* the relay saw EOF from upstream
    \* ---- the peers of the connection and its relay ----
    c_closes,   \* the client closes after its bytes (else it stays silent)
    s_closes,   \* the server closes after its bytes (else it stays silent)
    rerr,       \* the I/O error the relay met, and in which direction
    \* ---- one SOCKS5 connection, handle_socks5(inbound, iface, user, pass, ..) ----
    creds,      \* the configured user and pass (each an Option)
    sk,         \* the locals of handle_socks5
    \* ---- util.rs: the log throttle ----
    clock,            \* the wall clock, in seconds
    LOG_WINDOW_SEC,   \* static AtomicU64
    LOG_COUNT,        \* static AtomicU64
    LOG_SUPPRESSED,   \* static AtomicU64
    callers,          \* the threads inside log_throttled and their locals
    emitted,          \* the calls made, the closures invoked in each
                      \* wall-clock second, the window rolls won for each
                      \* second, the "suppressed N" lines written and the
                      \* calls suppressed, by the second the call read
    \* ---- the accept loops, run_http_proxy and run_socks5_proxy_auth ----
    listeners,  \* the locals of each accept loop
    sem,        \* the permits available in the Arc<Semaphore>
    tasks       \* every accepted connection: who owns it and how far its
                \* handler has come

dvars == <<iface, resolver, dpc, dhost, dport, addrs, sa, last_err, dret,
           sockets, syscalls>>
hvars == <<req, cin, srv, hpc, buf, parsed, herr, toClient, toUpstream,
           c2s_done, s2c_done>>
kvars == <<c_closes, s_closes, rerr>>
svars == <<creds, sk>>
lvars == <<clock, LOG_WINDOW_SEC, LOG_COUNT, LOG_SUPPRESSED, callers, emitted>>
avars == <<listeners, sem, tasks>>
vars == <<dvars, hvars, kvars, svars, lvars, avars>>

---------------------------------------------------------------------------
(* Bounds of the model.                                                    *)

MaxAddrs == 3
MaxHdrs == 2
MaxBody == 1

---------------------------------------------------------------------------
(* Byte strings.                                                           *)

B(s) == [i \in 1..Len(s) |-> SubSeq(s, i, i)]

Min(a, b) == IF a < b THEN a ELSE b

---------------------------------------------------------------------------
(* util.rs: connect_outbound.                                              *)

Families == {"v4", "v6"}
Ifaces == {"en0", "eth1"}

SeqsUpTo(S, n) == UNION {[1..k -> S] : k \in 0..n}

NoErr == [kind |-> "none", at |-> 0]
Err(kind, at) == [kind |-> kind, at |-> at]
NoRet == [ok |-> FALSE, sock |-> 0, err |-> NoErr, set |-> FALSE]
RetOk(s) == [ok |-> TRUE, sock |-> s, err |-> NoErr, set |-> TRUE]
RetErr(e) == [ok |-> FALSE, sock |-> 0, err |-> e, set |-> TRUE]

\* TcpSocket::new_v4() / TcpSocket::new_v6(): a fresh socket of one family
TcpSocket_new(fam, at) ==
    [family |-> fam, at |-> at, bound_if |-> "", connected |-> FALSE]

\* for sa in addrs: the socket is of the family of the candidate
socket_family(a) == a

\* bind_iface_v4 / bind_iface_v6: setsockopt(IP_BOUND_IF / IPV6_BOUND_IF)
bind_iface(s, name, ok) ==
    IF ok THEN [s EXCEPT !.bound_if = name] ELSE s

\* socket.connect(addr)
socket_connect(s, ok) ==
    IF ok THEN [s EXCEPT !.connected = TRUE] ELSE s

Cur == Len(sockets)

\* let addrs = lookup_host((host, port)).await?;
connect_outbound_lookup ==
    /\ dpc = "lookup"
    /\ \E ok \in BOOLEAN, ans \in resolver :
          IF ok
          THEN /\ addrs' = ans
               /\ sa' = 1
               /\ dpc' = "for"
               /\ dret' = dret
          ELSE /\ dret' = RetErr(Err("lookup", 0))
               /\ dpc' = "ret"
               /\ UNCHANGED <<addrs, sa>>
    /\ UNCHANGED <<iface, resolver, dhost, dport, last_err, sockets, syscalls>>
    /\ UNCHANGED <<hvars, kvars, svars, lvars, avars>>

\* for sa in addrs { let socket = TcpSocket::new_vX()?; ... }
\* and, after the loop, if let Some(e) = last_err { Err(e) } else bail!("no address")
connect_outbound_for ==
    /\ dpc = "for"
    /\ IF sa > Len(addrs)
       THEN /\ dret' = RetErr(IF last_err # NoErr THEN last_err
                              ELSE Err("no address", 0))
            /\ dpc' = "ret"
            /\ UNCHANGED <<sockets, syscalls>>
       ELSE \E ok \in BOOLEAN :
              IF ok
              THEN /\ sockets' = Append(sockets,
                                   TcpSocket_new(socket_family(addrs[sa]), sa))
                   /\ syscalls' = Append(syscalls,
                                   [op |-> "socket", sock |-> Cur + 1, ok |-> TRUE])
                   /\ dpc' = "bind"
                   /\ dret' = dret
              ELSE /\ dret' = RetErr(Err("socket", sa))
                   /\ dpc' = "ret"
                   /\ UNCHANGED <<sockets, syscalls>>
    /\ UNCHANGED <<iface, resolver, dhost, dport, addrs, sa, last_err>>
    /\ UNCHANGED <<hvars, kvars, svars, lvars, avars>>

connect_outbound_bind_skip ==
    /\ dpc = "bind"
    /\ \E ok \in BOOLEAN :
          /\ sockets' = [sockets EXCEPT ![Cur] = bind_iface(@, iface, ok)]
          /\ syscalls' = Append(syscalls, [op |-> "bind", sock |-> Cur, ok |-> ok])
          /\ dpc' = "connect"
          /\ UNCHANGED <<last_err, sa>>
    /\ UNCHANGED <<iface, resolver, dhost, dport, addrs, dret>>
    /\ UNCHANGED <<hvars, kvars, svars, lvars, avars>>

\* if let Err(e) = bind_iface_vX(fd, iface) { last_err = Some(e); continue; }
connect_outbound_bind ==
    /\ dpc = "bind"
    /\ \E ok \in BOOLEAN :
          /\ sockets' = [sockets EXCEPT ![Cur] = bind_iface(@, iface, ok)]
          /\ syscalls' = Append(syscalls, [op |-> "bind", sock |-> Cur, ok |-> ok])
          /\ IF ok
             THEN /\ dpc' = "connect"
                  /\ UNCHANGED <<last_err, sa>>
             ELSE /\ last_err' = Err("bind", sa)
                  /\ sa' = sa + 1
                  /\ dpc' = "for"
    /\ UNCHANGED <<iface, resolver, dhost, dport, addrs, dret>>
    /\ UNCHANGED <<hvars, kvars, svars, lvars, avars>>

connect_outbound_connect_on ==
    /\ dpc = "connect"
    /\ \E ok \in BOOLEAN :
          /\ sockets' = [sockets EXCEPT ![Cur] = socket_connect(@, ok)]
          /\ syscalls' = Append(syscalls, [op |-> "connect", sock |-> Cur, ok |-> ok])
          /\ IF ok /\ sa = Len(addrs)
             THEN /\ dret' = RetOk(Cur)
                  /\ dpc' = "ret"
                  /\ UNCHANGED <<last_err, sa>>
             ELSE /\ last_err' = IF ok THEN last_err ELSE Err("connect", sa)
                  /\ sa' = sa + 1
                  /\ dpc' = "for"
                  /\ dret' = dret
    /\ UNCHANGED <<iface, resolver, dhost, dport, addrs>>
    /\ UNCHANGED <<hvars, kvars, svars, lvars, avars>>

connect_outbound_connect_first ==
    /\ dpc = "connect"
    /\ \E ok \in BOOLEAN :
          /\ sockets' = [sockets EXCEPT ![Cur] = socket_connect(@, ok)]
          /\ syscalls' = Append(syscalls, [op |-> "connect", sock |-> Cur, ok |-> ok])
          /\ IF ok
             THEN /\ dret' = RetOk(Cur)
                  /\ dpc' = "ret"
                  /\ UNCHANGED <<last_err, sa>>
             ELSE /\ last_err' = IF last_err = NoErr THEN Err("connect", sa)
                                 ELSE last_err
                  /\ sa' = sa + 1
                  /\ dpc' = "for"
                  /\ dret' = dret
    /\ UNCHANGED <<iface, resolver, dhost, dport, addrs>>
    /\ UNCHANGED <<hvars, kvars, svars, lvars, avars>>

\* match socket.connect(addr).await { Ok(s) => return Ok(s),
\*     Err(e) => { last_err = Some(anyhow::Error::new(e)); continue; } }
connect_outbound_connect ==
    /\ dpc = "connect"
    /\ \E ok \in BOOLEAN :
          /\ sockets' = [sockets EXCEPT ![Cur] = socket_connect(@, ok)]
          /\ syscalls' = Append(syscalls, [op |-> "connect", sock |-> Cur, ok |-> ok])
          /\ IF ok
             THEN /\ dret' = RetOk(Cur)
                  /\ dpc' = "ret"
                  /\ UNCHANGED <<last_err, sa>>
             ELSE /\ last_err' = Err("connect", sa)
                  /\ sa' = sa + 1
                  /\ dpc' = "for"
                  /\ dret' = dret
    /\ UNCHANGED <<iface, resolver, dhost, dport, addrs>>
    /\ UNCHANGED <<hvars, kvars, svars, lvars, avars>>

connect_outbound ==
    \/ connect_outbound_lookup
    \/ connect_outbound_for
    \/ connect_outbound_bind
    \/ connect_outbound_connect

---------------------------------------------------------------------------
(* The dialer on its own: connect_outbound called once, for any resolver   *)
(* answer of at most MaxAddrs addresses.                                   *)

\* Option<T>
None == [some |-> FALSE, v |-> <<>>]
Some(v) == [some |-> TRUE, v |-> v]

NoRelayErr == [kind |-> "none", dir |-> "none"]

\* both peers send their bytes and close
PeersClose ==
    /\ c_closes = TRUE
    /\ s_closes = TRUE
    /\ rerr = NoRelayErr

\* no SOCKS5 connection
SocksIdle ==
    /\ creds = [user |-> None, pass |-> None]
    /\ sk = <<>>

\* nobody logs
LogIdle ==
    /\ clock = 0
    /\ LOG_WINDOW_SEC = 0
    /\ LOG_COUNT = 0
    /\ LOG_SUPPRESSED = 0
    /\ callers = <<>>
    /\ emitted = [calls |-> 0, at |-> <<>>, wins |-> <<>>, lines |-> <<>>,
                  dropped |-> <<>>]

\* nobody listens
ListenIdle ==
    /\ listeners = <<>>
    /\ sem = 0
    /\ tasks = <<>>

HttpIdle ==
    /\ req = <<>>
    /\ cin = [pad |-> 0, bytes |-> <<>>]
    /\ srv = [pad |-> 0, bytes |-> <<>>]
    /\ hpc = "idle"
    /\ buf = [pad |-> 0, bytes |-> <<>>]
    /\ parsed = [ok |-> FALSE]
    /\ herr = ""
    /\ toClient = <<>>
    /\ toUpstream = <<>>
    /\ c2s_done = FALSE
    /\ s2c_done = FALSE

DialCalled(h, p) ==
    /\ dpc = "lookup"
    /\ dhost = h
    /\ dport = p
    /\ addrs = <<>>
    /\ sa = 0
    /\ last_err = NoErr
    /\ dret = NoRet
    /\ sockets = <<>>
    /\ syscalls = <<>>

InitDial ==
    /\ PeersClose
    /\ SocksIdle
    /\ LogIdle
    /\ ListenIdle
    /\ iface \in Ifaces
    /\ resolver = SeqsUpTo(Families, MaxAddrs)
    /\ DialCalled(B("h"), 80)
    /\ HttpIdle

SpecDial == InitDial /\ [][connect_outbound]_vars

---------------------------------------------------------------------------
(* Properties of the dialer.                                               *)

IsOp(j, op) == syscalls[j].op = op

\* C1: in connect_outbound every connect is issued on a socket whose
\* interface bind was the operation just before it and succeeded, every bind
\* is issued on the socket created just before it (fresh, not yet connected),
\* and the stream connect_outbound returns is bound to the configured iface.
C1_BindBeforeConnect ==
    /\ \A j \in 1..Len(syscalls) :
          IsOp(j, "connect") =>
             /\ j > 1
             /\ syscalls[j - 1] = [op |-> "bind", sock |-> syscalls[j].sock, ok |-> TRUE]
    /\ \A j \in 1..Len(syscalls) :
          IsOp(j, "bind") =>
             /\ j > 1
             /\ syscalls[j - 1] = [op |-> "socket", sock |-> syscalls[j].sock, ok |-> TRUE]
             /\ \A i \in 1..(j - 1) :
                   ~(IsOp(i, "connect") /\ syscalls[i].sock = syscalls[j].sock)
    /\ \A k \in 1..Len(sockets) :
          sockets[k].connected => sockets[k].bound_if = iface
    /\ dret.ok =>
          /\ sockets[dret.sock].bound_if = iface
          /\ sockets[dret.sock].connected

\* a stream is returned for the third candidate after a failed bind and a
\* failed connect on the earlier ones
C1_Witness ==
    /\ dret.ok
    /\ dret.sock = 3
    /\ \E j \in 1..Len(syscalls) : IsOp(j, "bind") /\ ~syscalls[j].ok
    /\ \E j \in 1..Len(syscalls) : IsOp(j, "connect") /\ ~syscalls[j].ok

\* C2: the candidates are tried in resolver order, each on a socket of its
\* own family; the stream returned is that of the first candidate whose bind
\* and connect both succeeded, and nothing is attempted after that success.
C2_ResolverOrder ==
    /\ Len(sockets) <= Len(addrs)
    /\ \A k \in 1..Len(sockets) :
          /\ sockets[k].at = k
          /\ sockets[k].family = addrs[k]
    /\ \A j \in 1..Len(syscalls), i \in 1..Len(syscalls) :
          i < j => syscalls[i].sock <= syscalls[j].sock
    /\ dret.ok =>
          /\ dret.sock = Len(sockets)
          /\ sockets[dret.sock].connected
          /\ sockets[dret.sock].bound_if # ""
          /\ \A k \in 1..(dret.sock - 1) : ~sockets[k].connected
          /\ syscalls[Len(syscalls)] = [op |-> "connect", sock |-> dret.sock, ok |-> TRUE]
    /\ (\E k \in 1..Len(sockets) : sockets[k].connected) => dret.ok

\* a v6 answer followed by a v4 answer: the v6 candidate failed, the v4 one
\* is returned, and a third candidate was never tried
C2_Witness ==
    /\ dret.ok
    /\ Len(addrs) = 3
    /\ addrs[1] = "v6"
    /\ addrs[2] = "v4"
    /\ dret.sock = 2
    /\ sockets[2].family = "v4"

AllCandidatesFailed ==
    /\ dpc = "ret"
    /\ dret.err.kind # "lookup"
    /\ Len(sockets) = Len(addrs)
    /\ \A k \in 1..Len(sockets) : ~sockets[k].connected

\* C3: when every resolved candidate failed in bind or connect,
\* connect_outbound returns the error of the last candidate in resolver
\* order; when the resolution gave no address it returns `no address`.
C3_LastError ==
    AllCandidatesFailed =>
       IF addrs = <<>>
       THEN dret = RetErr(Err("no address", 0))
       ELSE /\ ~syscalls[Len(syscalls)].ok
            /\ syscalls[Len(syscalls)].sock = Len(addrs)
            /\ dret = RetErr(Err(syscalls[Len(syscalls)].op, Len(addrs)))

\* three candidates failed, the first two in connect and the last in bind
C3_Witness ==
    /\ AllCandidatesFailed
    /\ Len(addrs) = 3
    /\ dret.err = Err("bind", 3)
    /\ sockets[1].bound_if = iface
    /\ sockets[2].bound_if = iface

---------------------------------------------------------------------------
(* Strings: the operations of str and [u8] that http_proxy.rs uses.        *)

CRLF == B("\r\n")
CRLFCRLF == B("\r\n\r\n")
InvalidByte == "<FF>"
ReplacementChar == "<U+FFFD>"

UpperCase == B("ABCDEFGHIJKLMNOPQRSTUVWXYZ")
LowerCase == B("abcdefghijklmnopqrstuvwxyz")
DigitChars == B("0123456789")

Drop(s, n) == SubSeq(s, n + 1, Len(s))
Take(s, n) == SubSeq(s, 1, n)

\* String::from_utf8_lossy: a byte that is not valid UTF-8 becomes U+FFFD
from_utf8_lossy(bytes) ==
    [i \in 1..Len(bytes) |->
        IF bytes[i] = InvalidByte THEN ReplacementChar ELSE bytes[i]]

\* str::as_bytes: U+FFFD is the three bytes EF BF BD
RECURSIVE as_bytes(_)
as_bytes(str) ==
    IF str = <<>> THEN <<>>
    ELSE (IF Head(str) = ReplacementChar THEN <<"<EF>", "<BF>", "<BD>">>
          ELSE <<Head(str)>>) \o as_bytes(Tail(str))

to_ascii_lowercase_char(c) ==
    IF \E i \in 1..26 : UpperCase[i] = c
    THEN LowerCase[CHOOSE i \in 1..26 : UpperCase[i] = c]
    ELSE c

to_ascii_lowercase(str) ==
    [i \in 1..Len(str) |-> to_ascii_lowercase_char(str[i])]

eq_ignore_ascii_case(a, b) == to_ascii_lowercase(a) = to_ascii_lowercase(b)

starts_with(str, pat) == Len(str) >= Len(pat) /\ Take(str, Len(pat)) = pat

MatchAt(str, pat, i) ==
    i + Len(pat) - 1 <= Len(str) /\ SubSeq(str, i, i + Len(pat) - 1) = pat

\* str::find: the 1-based index of the first occurrence of pat, 0 when none
find(str, pat) ==
    IF \E i \in 1..Len(str) : MatchAt(str, pat, i)
    THEN CHOOSE i \in 1..Len(str) :
            MatchAt(str, pat, i) /\ \A j \in 1..(i - 1) : ~MatchAt(str, pat, j)
    ELSE 0

\* str::split(pat): the pieces between the occurrences of pat, left to right
RECURSIVE split(_, _)
split(str, pat) ==
    LET i == find(str, pat)
    IN  IF i = 0 THEN <<str>>
        ELSE <<Take(str, i - 1)>> \o split(Drop(str, i + Len(pat) - 1), pat)

is_whitespace(c) == c \in {" ", "\t", "\r", "\n"}

RECURSIVE trim_start(_)
trim_start(str) ==
    IF str # <<>> /\ is_whitespace(Head(str)) THEN trim_start(Tail(str)) ELSE str

RECURSIVE trim_end(_)
trim_end(str) ==
    IF str # <<>> /\ is_whitespace(str[Len(str)])
    THEN trim_end(Take(str, Len(str) - 1)) ELSE str

trim(str) == trim_end(trim_start(str))

\* the length of the longest prefix of str without whitespace
RECURSIVE word_len(_)
word_len(str) ==
    IF str = <<>> \/ is_whitespace(Head(str)) THEN 0 ELSE 1 + word_len(Tail(str))

\* str::split_whitespace: the maximal runs of non-whitespace
RECURSIVE split_whitespace(_)
split_whitespace(str) ==
    LET t == trim_start(str)
        n == word_len(t)
    IN  IF t = <<>> THEN <<>>
        ELSE <<Take(t, n)>> \o split_whitespace(Drop(t, n))

IsDigit(c) == \E i \in 1..10 : DigitChars[i] = c
DigitVal(c) == (CHOOSE i \in 1..10 : DigitChars[i] = c) - 1

RECURSIVE DecimalValue(_)
DecimalValue(ds) ==
    IF ds = <<>> THEN 0
    ELSE 10 * DecimalValue(Take(ds, Len(ds) - 1)) + DigitVal(ds[Len(ds)])

U16Max == 65535
ParseFailed == -1

\* str::parse::<u16>(): an optional '+', then one or more digits, and a
\* value that fits 16 bits; ParseFailed stands for Err
parse_u16(str) ==
    LET ds == IF str # <<>> /\ Head(str) = "+" THEN Tail(str) ELSE str
    IN  IF ds = <<>> \/ \E i \in 1..Len(ds) : ~IsDigit(ds[i]) THEN ParseFailed
        ELSE IF DecimalValue(ds) > U16Max THEN ParseFailed
        ELSE DecimalValue(ds)

unwrap_or(v, d) == IF v = ParseFailed THEN d ELSE v

\* format!("{}", port) for a u16
RECURSIVE format_u16(_)
format_u16(n) ==
    IF n < 10 THEN <<DigitChars[n + 1]>>
    ELSE format_u16(n \div 10) \o <<DigitChars[(n % 10) + 1]>>

RECURSIVE join_lines(_)
join_lines(lines) ==
    IF lines = <<>> THEN <<>>
    ELSE Head(lines) \o CRLF \o join_lines(Tail(lines))

---------------------------------------------------------------------------
(* Byte streams.  A stream is `pad` filler bytes 'x' followed by `bytes`,  *)
(* so that a long run of bytes without CR or LF is held as a number.       *)

Stream(pad, bytes) == [pad |-> pad, bytes |-> bytes]
Empty == Stream(0, <<>>)
Avail(st) == st.pad + Len(st.bytes)

\* the first k bytes of st, and st without them
StreamTake(st, k) ==
    LET p == Min(k, st.pad) IN Stream(p, Take(st.bytes, k - p))
StreamDrop(st, k) ==
    LET p == Min(k, st.pad) IN Stream(st.pad - p, Drop(st.bytes, k - p))
\* buf.extend_from_slice(&tmp[..n])
extend_from_slice(b, piece) ==
    IF piece.pad > 0 /\ b.bytes = <<>>
    THEN Stream(b.pad + piece.pad, piece.bytes)
    ELSE Stream(b.pad, b.bytes \o [i \in 1..piece.pad |-> "x"] \o piece.bytes)
StreamBytes(st) == [i \in 1..st.pad |-> "x"] \o st.bytes

---------------------------------------------------------------------------
(* http_proxy.rs: read_http_headers.                                       *)

TmpSize == 1024
HeaderCap == 64 * 1024

\* the sizes a read of the client socket may return (at most the available
\* bytes, at most the size of tmp)
ReadSizes == {16, TmpSize}

\* buf.windows(4).any(|w| w == b"\r\n\r\n")
has_terminator(b) == find(b.bytes, CRLFCRLF) # 0

\* if buf.len() > 64 * 1024 { bail!("headers too large") }
too_large(b) == Avail(b) > HeaderCap

\* one turn of the loop of read_http_headers
read_http_headers ==
    /\ hpc = "read"
    /\ Avail(cin) > 0 \/ c_closes
    /\ \E n \in ReadSizes :
          LET k == Min(n, Avail(cin))
              nb == extend_from_slice(buf, StreamTake(cin, k))
          IN  IF k = 0
              THEN /\ hpc' = "err"
                   /\ herr' = "client closed before headers"
                   /\ UNCHANGED <<buf, cin>>
              ELSE /\ buf' = nb
                   /\ cin' = StreamDrop(cin, k)
                   /\ IF has_terminator(nb)
                      THEN hpc' = "parse" /\ herr' = herr
                      ELSE IF too_large(nb)
                           THEN hpc' = "err" /\ herr' = "headers too large"
                           ELSE hpc' = "read" /\ herr' = herr
    /\ UNCHANGED <<req, srv, parsed, toClient, toUpstream, c2s_done, s2c_done>>
    /\ UNCHANGED <<dvars, kvars, svars, lvars, avars>>

---------------------------------------------------------------------------
(* http_proxy.rs: the parsing helpers.                                     *)

\* split_headers_body: Some((i + 4, &buf[i + 4..])) for the first CRLF CRLF
split_headers_body(raw) ==
    LET i == find(raw, CRLFCRLF)
    IN  IF i = 0 THEN [some |-> FALSE, header_end |-> 0, body_start |-> <<>>]
        ELSE [some |-> TRUE, header_end |-> i + 3, body_start |-> Drop(raw, i + 3)]

\* parse_request_line: the first three whitespace-separated fields of the
\* first line
parse_request_line(headers) ==
    LET line == Head(split(headers, CRLF))
        parts == split_whitespace(line)
    IN  IF Len(parts) < 3
        THEN [ok |-> FALSE, method |-> <<>>, uri |-> <<>>, version |-> <<>>]
        ELSE [ok |-> TRUE, method |-> parts[1], uri |-> parts[2],
              version |-> parts[3]]

HostPrefixes == <<B("Host:"), B("host:")>>

host_prefix(line) ==
    IF starts_with(line, HostPrefixes[1]) THEN 1
    ELSE IF starts_with(line, HostPrefixes[2]) THEN 2 ELSE 0

\* parse_host_from_headers: the trimmed value of the first line after the
\* request line that starts with "Host:" or "host:"; <<>> stands for None
\* (the caller takes unwrap_or_default)
RECURSIVE first_host(_)
first_host(lines) ==
    IF lines = <<>> THEN [some |-> FALSE, value |-> <<>>]
    ELSE IF host_prefix(Head(lines)) # 0
         THEN [some |-> TRUE, value |-> trim(Drop(Head(lines), 5))]
         ELSE first_host(Tail(lines))

parse_host_from_headers(headers) == first_host(Tail(split(headers, CRLF)))

---------------------------------------------------------------------------
(* http_proxy.rs: handle_http_proxy, from the request line to the dial.    *)

NotParsed ==
    [ok |-> FALSE, err |-> "", header_end |-> 0, body_start |-> <<>>,
     headers_str |-> <<>>, method |-> <<>>, uri |-> <<>>, version |-> <<>>,
     connect |-> FALSE, host |-> <<>>, port |-> 0, path |-> <<>>]

Target(h, p, q) == [ok |-> TRUE, host |-> h, port |-> p, path |-> q]
NoTarget == [ok |-> FALSE, host |-> <<>>, port |-> 0, path |-> <<>>]

\* let mut hp = uri.split(':'); let host = hp.next().unwrap_or("");
\* let port: u16 = hp.next().unwrap_or("443").parse().unwrap_or(443);
connect_target(uri) ==
    LET hp == split(uri, B(":"))
    IN  Target(hp[1],
               unwrap_or(parse_u16(IF Len(hp) >= 2 THEN hp[2] ELSE B("443")), 443),
               <<>>)

\* variant: the host is split at its last ':'
split_host_port_last(t) ==
    LET hp == split(t.host, B(":"))
    IN  IF Len(hp) >= 2
        THEN Target(Take(t.host, Len(t.host) - Len(hp[Len(hp)]) - 1),
                    unwrap_or(parse_u16(hp[Len(hp)]), 80), t.path)
        ELSE t

\* if let Some((h, p)) = host.clone().split_once(':') {
\*     host = h.to_string(); port = p.parse().unwrap_or(80); }
split_host_port(t) ==
    LET i == find(t.host, B(":"))
    IN  IF i # 0
        THEN Target(Take(t.host, i - 1),
                    unwrap_or(parse_u16(Drop(t.host, i)), 80), t.path)
        ELSE t

\* variant: any other URI is taken as an origin-form path
request_target_lenient(uri, headers_str) ==
    IF starts_with(uri, B("http://"))
    THEN LET rest == Drop(uri, 7)
             pos == find(rest, B("/"))
         IN  IF pos # 0
             THEN Target(Take(rest, pos - 1), 80, Drop(rest, pos - 1))
             ELSE Target(rest, 80, B("/"))
    ELSE Target(parse_host_from_headers(headers_str).value, 80, uri)

\* the (host, port, path) of a request that is not CONNECT, before the
\* host is split at ':'
request_target(uri, headers_str) ==
    IF starts_with(uri, B("http://"))
    THEN LET rest == Drop(uri, 7)
             pos == find(rest, B("/"))
         IN  IF pos # 0
             THEN Target(Take(rest, pos - 1), 80, Drop(rest, pos - 1))
             ELSE Target(rest, 80, B("/"))
    ELSE IF starts_with(uri, B("/"))
         THEN Target(parse_host_from_headers(headers_str).value, 80, uri)
         ELSE NoTarget

\* handle_http_proxy up to the call of connect_outbound
parse_request(raw) ==
    LET sp == split_headers_body(raw)
        headers_str == from_utf8_lossy(Take(raw, sp.header_end))
        rl == parse_request_line(headers_str)
        is_connect == eq_ignore_ascii_case(rl.method, B("CONNECT"))
        t0 == IF is_connect THEN connect_target(rl.uri)
              ELSE request_target(rl.uri, headers_str)
        t == IF is_connect \/ ~t0.ok THEN t0 ELSE split_host_port(t0)
        got == [NotParsed EXCEPT !.header_end = sp.header_end,
                                 !.body_start = sp.body_start,
                                 !.headers_str = headers_str,
                                 !.method = rl.method,
                                 !.uri = rl.uri,
                                 !.version = rl.version,
                                 !.connect = is_connect]
    IN  IF ~sp.some THEN [NotParsed EXCEPT !.err = "bad headers"]
        ELSE IF ~rl.ok THEN [got EXCEPT !.err = "bad request line"]
        ELSE IF ~t.ok THEN [got EXCEPT !.err = "unsupported URI for HTTP proxy"]
        ELSE [got EXCEPT !.ok = TRUE, !.host = t.host, !.port = t.port,
                         !.path = t.path]

handle_http_proxy_parse ==
    /\ hpc = "parse"
    /\ LET p == parse_request(StreamBytes(buf))
       IN  /\ parsed' = p
           /\ IF p.ok
              THEN /\ hpc' = "dial"
                   /\ herr' = herr
                   /\ dpc' = "lookup"
                   /\ dhost' = p.host
                   /\ dport' = p.port
              ELSE /\ hpc' = "err"
                   /\ herr' = p.err
                   /\ UNCHANGED <<dpc, dhost, dport>>
    /\ UNCHANGED <<req, cin, srv, buf, toClient, toUpstream, c2s_done, s2c_done>>
    /\ UNCHANGED <<iface, resolver, addrs, sa, last_err, dret, sockets, syscalls>>
    /\ UNCHANGED <<kvars, svars, lvars, avars>>

---------------------------------------------------------------------------
(* http_proxy.rs: handle_http_proxy, after the dial.                       *)

Established ==
    B("HTTP/1.1 200 Connection Established\r\nProxy-Agent: iface-proxy\r\n\r\n")

\* lower.starts_with("host:")
is_host_line(line) == starts_with(to_ascii_lowercase(line), B("host:"))

\* lower.starts_with("proxy-connection:") || lower.starts_with("proxy-authorization:")
is_hop_line(line) ==
    \/ starts_with(to_ascii_lowercase(line), B("proxy-connection:"))
    \/ starts_with(to_ascii_lowercase(line), B("proxy-authorization:"))

\* variant: the Host line always carries the port
synth_host_always_port(host, port) ==
    B("Host: ") \o host \o B(":") \o format_u16(port) \o CRLF

\* if port == 80 { "Host: {host}\r\n" } else { "Host: {host}:{port}\r\n" }
synth_host(host, port) ==
    IF port = 80 THEN B("Host: ") \o host \o CRLF
    ELSE B("Host: ") \o host \o B(":") \o format_u16(port) \o CRLF

\* the String rebuilt: the request line, the header lines kept, a Host
\* line when there was none, and the empty line
rebuild(p) ==
    LET lines == Tail(split(p.headers_str, CRLF))
        has_host == \E i \in 1..Len(lines) :
                       lines[i] # <<>> /\ is_host_line(lines[i])
        kept == SelectSeq(lines, LAMBDA l : l # <<>> /\ ~is_hop_line(l))
    IN  p.method \o B(" ") \o p.path \o B(" ") \o p.version \o CRLF
        \o join_lines(kept)
        \o (IF has_host THEN <<>> ELSE synth_host(p.host, p.port))
        \o CRLF

DialReturned == hpc = "dial" /\ dpc = "ret"

\* variant: the reply is written whatever connect_outbound returned
handle_http_proxy_connect_early ==
    /\ DialReturned
    /\ parsed.connect
    /\ toClient' = toClient \o Established
    /\ IF dret.ok THEN hpc' = "relay" /\ herr' = herr
       ELSE hpc' = "err" /\ herr' = dret.err.kind
    /\ UNCHANGED <<req, cin, srv, buf, parsed, toUpstream, c2s_done, s2c_done>>
    /\ UNCHANGED <<dvars, kvars, svars, lvars, avars>>

\* CONNECT: let mut outbound = connect_outbound(host, port, iface).await?;
\* inbound.write_all(b"HTTP/1.1 200 Connection Established...").await?;
handle_http_proxy_connect ==
    /\ DialReturned
    /\ parsed.connect
    /\ IF ~dret.ok
       THEN /\ hpc' = "err"
            /\ herr' = dret.err.kind
            /\ toClient' = toClient
       ELSE \E ok \in BOOLEAN :
              IF ok
              THEN /\ toClient' = toClient \o Established
                   /\ hpc' = "relay"
                   /\ herr' = herr
              ELSE /\ hpc' = "err"
                   /\ herr' = "write failed"
                   /\ toClient' = toClient
    /\ UNCHANGED <<req, cin, srv, buf, parsed, toUpstream, c2s_done, s2c_done>>
    /\ UNCHANGED <<dvars, kvars, svars, lvars, avars>>

\* variant of handle_http_proxy_forward: a dial that failed is answered
\* with a 502
handle_http_proxy_forward_502 ==
    /\ DialReturned
    /\ ~parsed.connect
    /\ IF ~dret.ok
       THEN /\ hpc' = "err"
            /\ herr' = dret.err.kind
            /\ toUpstream' = toUpstream
            /\ toClient' = toClient \o B("HTTP/1.1 502 Bad Gateway\r\n\r\n")
       ELSE /\ toClient' = toClient
            /\ \E ok \in BOOLEAN :
                 IF ok
                 THEN /\ toUpstream' = toUpstream \o as_bytes(rebuild(parsed))
                      /\ hpc' = "body"
                      /\ herr' = herr
                 ELSE /\ hpc' = "err"
                      /\ herr' = "write failed"
                      /\ toUpstream' = toUpstream
    /\ UNCHANGED <<req, cin, srv, buf, parsed, c2s_done, s2c_done>>
    /\ UNCHANGED <<dvars, kvars, svars, lvars, avars>>

\* let mut outbound = connect_outbound(&host, port, iface).await?;
\* ... outbound.write_all(rebuilt.as_bytes()).await?;
handle_http_proxy_forward ==
    /\ DialReturned
    /\ ~parsed.connect
    /\ IF ~dret.ok
       THEN /\ hpc' = "err"
            /\ herr' = dret.err.kind
            /\ toUpstream' = toUpstream
       ELSE \E ok \in BOOLEAN :
              IF ok
              THEN /\ toUpstream' = toUpstream \o as_bytes(rebuild(parsed))
                   /\ hpc' = "body"
                   /\ herr' = herr
              ELSE /\ hpc' = "err"
                   /\ herr' = "write failed"
                   /\ toUpstream' = toUpstream
    /\ UNCHANGED <<req, cin, srv, buf, parsed, toClient, c2s_done, s2c_done>>
    /\ UNCHANGED <<dvars, kvars, svars, lvars, avars>>

\* if !body_start.is_empty() { inbound.write_all(body_start).await?; }
handle_http_proxy_body ==
    /\ hpc = "body"
    /\ IF parsed.body_start = <<>>
       THEN /\ hpc' = "relay"
            /\ UNCHANGED <<herr, toClient>>
       ELSE \E ok \in BOOLEAN :
              IF ok
              THEN /\ toClient' = toClient \o parsed.body_start
                   /\ hpc' = "relay"
                   /\ herr' = herr
              ELSE /\ hpc' = "err"
                   /\ herr' = "write failed"
                   /\ toClient' = toClient
    /\ UNCHANGED <<req, cin, srv, buf, parsed, toUpstream, c2s_done, s2c_done>>
    /\ UNCHANGED <<dvars, kvars, svars, lvars, avars>>

\* variant of copy_c2s: the relay starts as soon as connect_outbound has
\* succeeded, without waiting for the reply to the client
copy_c2s_eager ==
    /\ hpc = "relay" \/ (DialReturned /\ dret.ok)
    /\ ~c2s_done
    /\ Avail(cin) > 0 \/ c_closes
    /\ \E n \in ReadSizes :
          LET k == Min(n, Avail(cin))
          IN  IF k = 0
              THEN /\ c2s_done' = TRUE
                   /\ UNCHANGED <<cin, toUpstream>>
              ELSE /\ toUpstream' = toUpstream \o StreamBytes(StreamTake(cin, k))
                   /\ cin' = StreamDrop(cin, k)
                   /\ c2s_done' = c2s_done
    /\ UNCHANGED <<req, srv, hpc, buf, parsed, herr, toClient, s2c_done>>
    /\ UNCHANGED <<dvars, kvars, svars, lvars, avars>>

\* copy_bidirectional(&mut inbound, &mut outbound): the client to upstream
copy_c2s ==
    /\ hpc = "relay"
    /\ ~c2s_done
    /\ Avail(cin) > 0 \/ c_closes
    /\ \E n \in ReadSizes :
          LET k == Min(n, Avail(cin))
          IN  IF k = 0
              THEN /\ c2s_done' = TRUE
                   /\ UNCHANGED <<cin, toUpstream>>
              ELSE /\ toUpstream' = toUpstream \o StreamBytes(StreamTake(cin, k))
                   /\ cin' = StreamDrop(cin, k)
                   /\ c2s_done' = c2s_done
    /\ UNCHANGED <<req, srv, hpc, buf, parsed, herr, toClient, s2c_done>>
    /\ UNCHANGED <<dvars, kvars, svars, lvars, avars>>

\* copy_bidirectional(&mut inbound, &mut outbound): upstream to the client
copy_s2c ==
    /\ hpc = "relay"
    /\ ~s2c_done
    /\ Avail(srv) > 0 \/ s_closes
    /\ \E n \in ReadSizes :
          LET k == Min(n, Avail(srv))
          IN  IF k = 0
              THEN /\ s2c_done' = TRUE
                   /\ UNCHANGED <<srv, toClient>>
              ELSE /\ toClient' = toClient \o StreamBytes(StreamTake(srv, k))
                   /\ srv' = StreamDrop(srv, k)
                   /\ s2c_done' = s2c_done
    /\ UNCHANGED <<req, cin, hpc, buf, parsed, herr, toUpstream, c2s_done>>
    /\ UNCHANGED <<dvars, kvars, svars, lvars, avars>>

\* the kinds of std::io::Error a read or write of the relay may return:
\* one that is_transient_anyhow_error accepts and one that it does not
IoErrors == {"connection reset", "permission denied"}

\* copy_bidirectional returns the error of any I/O operation at once, and
\* the `?` of the handler returns it
copy_error ==
    /\ hpc = "relay"
    /\ \E kind \in IoErrors, dir \in {"c2s", "s2c"} :
          /\ dir = "c2s" => ~c2s_done
          /\ dir = "s2c" => ~s2c_done
          /\ rerr' = [kind |-> kind, dir |-> dir]
          /\ herr' = kind
    /\ hpc' = "err"
    /\ UNCHANGED <<req, cin, srv, buf, parsed, toClient, toUpstream,
                   c2s_done, s2c_done, c_closes, s_closes>>
    /\ UNCHANGED <<dvars, svars, lvars, avars>>

\* variant of copy_finished: the relay returns at the first end of stream
copy_finished_first ==
    /\ hpc = "relay"
    /\ c2s_done \/ s2c_done
    /\ hpc' = "done"
    /\ UNCHANGED <<req, cin, srv, buf, parsed, herr, toClient, toUpstream,
                   c2s_done, s2c_done>>
    /\ UNCHANGED <<dvars, kvars, svars, lvars, avars>>

\* copy_bidirectional returns when both directions have ended
copy_finished ==
    /\ hpc = "relay"
    /\ c2s_done
    /\ s2c_done
    /\ hpc' = "done"
    /\ UNCHANGED <<req, cin, srv, buf, parsed, herr, toClient, toUpstream,
                   c2s_done, s2c_done>>
    /\ UNCHANGED <<dvars, kvars, svars, lvars, avars>>

handle_http_proxy ==
    \/ read_http_headers
    \/ handle_http_proxy_parse
    \/ handle_http_proxy_connect
    \/ handle_http_proxy_forward
    \/ handle_http_proxy_body
    \/ copy_c2s
    \/ copy_s2c
    \/ copy_error
    \/ copy_finished

---------------------------------------------------------------------------
(* The requests a client may send.  A request is kept as its parts (req)   *)
(* and sent as the bytes RequestBytes(req).                                *)

NoPort == [has |-> FALSE, text |-> <<>>, value |-> ParseFailed]
PortText(txt, v) == [has |-> TRUE, text |-> B(txt), value |-> v]

\* the port as the client wrote it, with the number it denotes
\* (ParseFailed: not the numeral of a 16-bit port)
Ports ==
    {NoPort, PortText("80", 80), PortText("81", 81), PortText("081", 81),
     PortText("0", 0), PortText("x", ParseFailed),
     PortText("65536", ParseFailed), PortText("8:1", ParseFailed)}
ConnectPorts == {NoPort, PortText("81", 81), PortText("x", ParseFailed)}

Line(kind, method, host, port, path, version) ==
    [kind |-> kind, method |-> B(method), host |-> B(host), port |-> port,
     path |-> B(path), version |-> B(version)]

AbsLines ==
    {Line("abs", "GET", "h", p, q, "HTTP/1.1") : p \in Ports, q \in {"", "/p:1/q"}}
ConnectLines ==
    {Line("connect", m, "h", p, "", "HTTP/1.1") :
        m \in {"CONNECT", "cOnNeCt"}, p \in ConnectPorts}
OriginLines == {Line("origin", "GET", "", NoPort, "/p", "HTTP/1.0")}
OtherLines ==
    {Line("https", "GET", "h", NoPort, "/p", "HTTP/1.1"),
     Line("asterisk", "OPTIONS", "", NoPort, "*", "HTTP/1.1"),
     Line("origin", "GET", "", NoPort, "/p", "")}
PlainLines ==
    {Line("abs", "GET", "h", PortText("81", 81), "/p", "HTTP/1.1")} \cup OriginLines
RequestLines ==
    AbsLines \cup ConnectLines \cup OriginLines \cup OtherLines \cup PlainLines

Authority(l) == l.host \o (IF l.port.has THEN B(":") \o l.port.text ELSE <<>>)

Uri(l) ==
    CASE l.kind = "connect" -> Authority(l)
      [] l.kind = "abs" -> B("http://") \o Authority(l) \o l.path
      [] l.kind = "https" -> B("https://") \o Authority(l) \o l.path
      [] OTHER -> l.path

LineBytes(l) ==
    l.method \o B(" ") \o Uri(l)
    \o (IF l.version = <<>> THEN <<>> ELSE B(" ") \o l.version)

\* a header line: its name as the client cased it, its value, and the header
\* it is (host, proxy-connection, proxy-authorization, or another one)
Header(kind, name, value) == [kind |-> kind, name |-> B(name), value |-> value]

\* the casings of the Host header name a client may use
HostHeaders ==
    {Header("host", "Host", B("o")),
     Header("host", "host", B("o")),
     Header("host", "HOST", B("o")),
     Header("host", "hOsT", B("o"))}

HeaderPool ==
    {Header("host", "Host", B("o")),
     Header("host", "HOST", B("o")),
     Header("proxy-connection", "Proxy-Connection", B("k")),
     Header("proxy-authorization", "pRoXy-AuThOrIzAtIoN", B("z")),
     Header("other", "A", B("1")),
     Header("other", "X", <<InvalidByte>>)}

HeaderBytes(h) == h.name \o B(": ") \o h.value

BodyBytes == B("bcdefgh")
Bodies == {Take(BodyBytes, k) : k \in 0..MaxBody}

Request(l, hs, b) == [line |-> l, hdrs |-> hs, body |-> b]

\* every request line with at most a Host header, and the plain request
\* lines with every list of at most MaxHdrs header lines
Requests ==
    {Request(l, hs, b) :
        l \in RequestLines, hs \in SeqsUpTo(HostHeaders, 1), b \in Bodies}
    \cup
    {Request(l, hs, b) :
        l \in PlainLines, hs \in SeqsUpTo(HeaderPool, MaxHdrs), b \in Bodies}

RequestBytes(r) ==
    LineBytes(r.line) \o CRLF
    \o join_lines([i \in 1..Len(r.hdrs) |-> HeaderBytes(r.hdrs[i])])
    \o CRLF \o r.body

Response == B("r")

DialIdle ==
    /\ dpc = "idle"
    /\ dhost = <<>>
    /\ dport = 0
    /\ addrs = <<>>
    /\ sa = 0
    /\ last_err = NoErr
    /\ dret = NoRet
    /\ sockets = <<>>
    /\ syscalls = <<>>

Accepted(stream) ==
    /\ cin = stream
    /\ srv = Stream(0, Response)
    /\ hpc = "read"
    /\ buf = Empty
    /\ parsed = NotParsed
    /\ herr = ""
    /\ toClient = <<>>
    /\ toUpstream = <<>>
    /\ c2s_done = FALSE
    /\ s2c_done = FALSE

\* one accepted HTTP connection, for every request of Requests
InitHttp ==
    /\ PeersClose
    /\ SocksIdle
    /\ LogIdle
    /\ ListenIdle
    /\ iface = "en0"
    /\ resolver = {<<>>, <<"v4">>}
    /\ DialIdle
    /\ req \in Requests
    /\ Accepted(Stream(0, RequestBytes(req)))

SpecHttp == InitHttp /\ [][handle_http_proxy \/ connect_outbound]_vars

---------------------------------------------------------------------------
(* read_http_headers on long streams: a run of filler bytes and then a     *)
(* tail with or without the CRLF CRLF terminator.                          *)

LongStreams ==
    {Stream(pad, tail) :
        pad \in {0, HeaderCap - 4, HeaderCap - 3, HeaderCap + TmpSize - 4,
                 HeaderCap + TmpSize},
        tail \in {CRLFCRLF \o B("b"), B("ab")}}

InitRead ==
    /\ PeersClose
    /\ SocksIdle
    /\ LogIdle
    /\ ListenIdle
    /\ iface = "en0"
    /\ resolver = {<<>>}
    /\ DialIdle
    /\ req = <<>>
    /\ \E st \in LongStreams : Accepted(st)

SpecRead == InitRead /\ [][read_http_headers]_vars

---------------------------------------------------------------------------
(* Properties of the HTTP front-end.                                       *)

\* the request is a well-formed one that is not CONNECT and its preamble
\* has been written to upstream
Forwarded ==
    /\ req.line.kind \in {"abs", "origin"}
    /\ hpc \in {"body", "relay", "done"}

\* the bytes of the server's response relayed so far
Relayed == Take(Response, Len(Response) - Avail(srv))

\* the bytes of the request body that read_http_headers had buffered
Buffered == Drop(StreamBytes(buf), find(StreamBytes(buf), CRLFCRLF) + 3)

\* the header lines of a preamble: the lines between the request line and
\* the empty line
PreambleLines(bytes) ==
    LET pre == Take(bytes, find(bytes, CRLFCRLF) - 1)
    IN  Tail(split(pre, CRLF))

Named(line, lower, upper) ==
    /\ Len(line) > Len(lower)
    /\ line[Len(lower) + 1] = ":"
    /\ \A i \in 1..Len(lower) : line[i] \in {lower[i], upper[i]}

NamedHost(line) == Named(line, B("host"), B("HOST"))
NamedHop(line) ==
    \/ Named(line, B("proxy-connection"), B("PROXY-CONNECTION"))
    \/ Named(line, B("proxy-authorization"), B("PROXY-AUTHORIZATION"))

SentLines == [i \in 1..Len(req.hdrs) |-> HeaderBytes(req.hdrs[i])]
SentHosts == SelectSeq(req.hdrs, LAMBDA h : h.kind = "host")

\* C4: for a request that is not CONNECT, once the relay starts upstream has
\* received the rewritten preamble followed by the body bytes that were
\* buffered with it, and the client has received none of them.
C4_BodyToUpstream ==
    (Forwarded /\ hpc \in {"relay", "done"}) =>
       /\ starts_with(toUpstream, as_bytes(rebuild(parsed)) \o Buffered)
       /\ toClient = Relayed

\* C5: read_http_headers returns a buffer only when the CRLF CRLF
\* terminator lies within the first 65,536 bytes of the stream.
C5_PreambleBound ==
    hpc = "parse" =>
       buf.pad + split_headers_body(buf.bytes).header_end <= HeaderCap

C6_Reply ==
    B("HTTP/1.1 200 Connection Established\r\nProxy-Agent: iface-proxy\r\n\r\n")

\* C6: for a CONNECT request (in any casing of the method) nothing reaches
\* the client before connect_outbound succeeded; then the client receives
\* exactly the 200 Connection Established bytes, and relayed upstream bytes
\* only after them.
C6_ConnectReply ==
    req.line.kind = "connect" =>
       /\ toClient # <<>> =>
             /\ dpc = "ret" /\ dret.ok /\ sockets[dret.sock].connected
             /\ toClient = C6_Reply \o Relayed
       /\ Relayed # <<>> => toClient # <<>>
       /\ hpc \in {"relay", "done"} => toClient # <<>>

\* a CONNECT written cOnNeCt, tunnelled to the end
C6_Witness ==
    /\ req.line.kind = "connect"
    /\ req.line.method = B("cOnNeCt")
    /\ hpc = "done"
    /\ toClient = C6_Reply \o Response

\* C7: the preamble written to upstream has no Proxy-Connection or
\* Proxy-Authorization line, and its other lines are the client's other
\* header lines, unchanged and in their order (followed by the Host line
\* the proxy adds when the client sent none).
C7_HopByHop ==
    Forwarded =>
       LET out == PreambleLines(toUpstream)
           kept == SelectSeq(req.hdrs, LAMBDA h : h.kind \notin
                       {"proxy-connection", "proxy-authorization"})
       IN  /\ \A i \in 1..Len(out) : ~NamedHop(out[i])
           /\ Len(out) >= Len(kept)
           /\ \A i \in 1..Len(kept) : out[i] = HeaderBytes(kept[i])

\* C8: a request with an absolute URI http://H:P/p (or http://H/p, port 80)
\* and no Host header is forwarded with exactly one Host header, `Host: H`
\* for port 80 and `Host: H:P` otherwise; a request that has a Host header
\* is forwarded with the Host headers it has and no other.
C8_HostSynthesis ==
    (Forwarded /\ req.line.kind = "abs"
       /\ (req.line.port.has => req.line.port.value # ParseFailed)) =>
       LET hosts == SelectSeq(PreambleLines(toUpstream), NamedHost)
           P == IF req.line.port.has THEN req.line.port.value ELSE 80
           numeral == CHOOSE t \in {B("80"), B("81"), B("0")} :
                         \E p \in Ports : p.text = t /\ p.value = P
       IN  IF SentHosts = <<>>
           THEN hosts = << B("Host: ") \o req.line.host
                           \o (IF P = 80 THEN <<>> ELSE B(":") \o numeral) >>
           ELSE hosts = [i \in 1..Len(SentHosts) |-> HeaderBytes(SentHosts[i])]

\* http://h:081/p:1/q without a Host header is forwarded with Host: h:81
C8_Witness ==
    /\ Forwarded
    /\ req.line.kind = "abs"
    /\ req.line.port.text = B("081")
    /\ SentHosts = <<>>
    /\ \E i \in 1..Len(PreambleLines(toUpstream)) :
          PreambleLines(toUpstream)[i] = B("Host: h:81")

\* C9: for a request with an http:// URI the dial target is the host
\* between http:// and the next '/', split at its first ':' into host and
\* port (80 when there is no port or it is not a 16-bit numeral), and the
\* forwarded request line is METHOD path VERSION with the path from that
\* '/' on, or '/' when there is none.
C9_AbsoluteTarget ==
    (req.line.kind = "abs" /\ hpc \notin {"read", "parse"}) =>
       LET P == IF req.line.port.value = ParseFailed THEN 80
                ELSE req.line.port.value
           path == IF req.line.path = <<>> THEN B("/") ELSE req.line.path
       IN  /\ dpc # "idle"
           /\ dhost = req.line.host
           /\ dport = P
           /\ Forwarded =>
                 starts_with(toUpstream,
                     req.line.method \o B(" ") \o path \o B(" ")
                     \o req.line.version \o CRLF)

\* http://h:8:1 (no path): dialled as h:80 and forwarded as GET / HTTP/1.1
C9_Witness ==
    /\ Forwarded
    /\ req.line.kind = "abs"
    /\ req.line.port.text = B("8:1")
    /\ req.line.path = <<>>
    /\ dhost = B("h")
    /\ dport = 80
    /\ starts_with(toUpstream, B("GET / HTTP/1.1\r\n"))

\* C10: for an origin-form request the dial target is the value of the
\* Host header, whatever the casing of its name, with port 80.
C10_HostAnyCasing ==
    (req.line.kind = "origin" /\ dpc # "idle" /\ SentHosts # <<>>) =>
       /\ dhost = SentHosts[1].value
       /\ dport = 80

\* C11: a request that is not CONNECT and whose URI starts neither with
\* http:// nor with / fails with `unsupported URI for HTTP proxy`;
\* connect_outbound is not called and nothing is written to the client or
\* to an upstream.
C11_UnsupportedUri ==
    req.line.kind \in {"https", "asterisk"} =>
       /\ dpc = "idle"
       /\ syscalls = <<>>
       /\ toClient = <<>>
       /\ toUpstream = <<>>
       /\ hpc \notin {"read", "parse"} =>
             hpc = "err" /\ herr = "unsupported URI for HTTP proxy"

\* GET https://h/p HTTP/1.1 with a Host header has been refused
C11_Witness ==
    /\ req.line.kind = "https"
    /\ SentHosts # <<>>
    /\ hpc = "err"
    /\ herr = "unsupported URI for HTTP proxy"

---------------------------------------------------------------------------
(* socks5.rs: handle_socks5.  The bytes of a SOCKS5 connection are numbers *)
(* 0..255.                                                                 *)

\* the ASCII codes of the characters that occur in names and credentials
AsciiChars == <<"h", "p", "q", "u", "v">>
AsciiCodes == <<104, 112, 113, 117, 118>>

\* str::as_bytes, for a string over AsciiChars
str_bytes(str) ==
    [i \in 1..Len(str) |->
        AsciiCodes[CHOOSE j \in 1..Len(AsciiChars) : AsciiChars[j] = str[i]]]

\* String::from_utf8_lossy(&hb): an ASCII byte is its character, and a byte
\* that starts no UTF-8 sequence becomes U+FFFD
bytes_lossy(hb) ==
    [i \in 1..Len(hb) |->
        IF \E j \in 1..Len(AsciiCodes) : AsciiCodes[j] = hb[i]
        THEN AsciiChars[CHOOSE j \in 1..Len(AsciiCodes) : AsciiCodes[j] = hb[i]]
        ELSE ReplacementChar]

\* std::net::Ipv4Addr::new(a, b, c, d).to_string()
ipv4_to_string(v4) ==
    format_u16(v4[1]) \o B(".") \o format_u16(v4[2]) \o B(".")
    \o format_u16(v4[3]) \o B(".") \o format_u16(v4[4])

\* std::net::Ipv6Addr::from(v6).to_string(): the text of the address, kept
\* as the address it denotes
ipv6_to_string(v6) == <<"ipv6">> \o v6

\* u16::from_be_bytes(p)
from_be_bytes(p) == p[1] * 256 + p[2]

\* the locals of handle_socks5 before anything is read
NoLocals ==
    [nmethods |-> 0, methods |-> <<>>, ulen |-> 0, ubytes |-> <<>>,
     plen |-> 0, pbytes |-> <<>>, cmd |-> 0, atyp |-> 0, len |-> 0,
     target_host |-> <<>>, target_port |-> 0]

\* the positions of handle_socks5 that are a read_exact_into
ReadPositions ==
    {"greeting", "methods", "sb_ver", "ulen", "uname", "plen", "passwd",
     "request", "addr", "name", "port"}

\* the length of the buffer read_exact_into has to fill at each of them
Need ==
    CASE hpc \in {"sb_ver", "ulen", "plen"} -> 1
      [] hpc \in {"greeting", "port"} -> 2
      [] hpc = "request" -> 4
      [] hpc = "methods" -> sk.nmethods
      [] hpc = "uname" -> sk.ulen
      [] hpc = "passwd" -> sk.plen
      [] hpc = "name" -> sk.len
      [] hpc = "addr" -> (CASE sk.atyp = 1 -> 4 [] sk.atyp = 3 -> 1 [] OTHER -> 16)
      [] OTHER -> 0

\* stream.read_exact(buf) has the bytes it needs
Filled(pos) == hpc = pos /\ Avail(cin) >= Need
Got == StreamBytes(StreamTake(cin, Need))

\* what a step of the handshake leaves alone
HandshakeFrame ==
    /\ UNCHANGED <<req, srv, buf, parsed, toUpstream, c2s_done, s2c_done>>
    /\ UNCHANGED <<kvars, creds, lvars, avars>>

\* the handler returns Err(e): inbound is dropped
Bail(e) == hpc' = "err" /\ herr' = e

\* variant of read_exact_timeout: read_exact without the timeout
read_exact_untimed ==
    /\ FALSE
    /\ UNCHANGED vars

\* timeout(Duration::from_millis(read_timeout_ms), stream.read_exact(buf))
\* elapsed before the buffer was filled
read_exact_timeout ==
    /\ hpc \in ReadPositions
    /\ Bail("read timeout")
    /\ UNCHANGED <<cin, toClient, sk, dvars>>
    /\ HandshakeFrame

\* stream.read_exact(buf) met the end of the stream
read_exact_eof ==
    /\ hpc \in ReadPositions
    /\ Avail(cin) < Need
    /\ c_closes
    /\ Bail("early eof")
    /\ UNCHANGED <<cin, toClient, sk, dvars>>
    /\ HandshakeFrame

\* let mut g = [0u8; 2]; read_exact_into(&mut inbound, &mut g, ..).await?;
socks5_greeting ==
    /\ Filled("greeting")
    /\ cin' = StreamDrop(cin, Need)
    /\ IF Got[1] # 5
       THEN Bail("Invalid SOCKS5 version in greeting") /\ sk' = sk
       ELSE /\ sk' = [sk EXCEPT !.nmethods = Got[2]]
            /\ hpc' = IF Got[2] > 0 THEN "methods" ELSE "select"
            /\ herr' = herr
    /\ UNCHANGED <<toClient, dvars>>
    /\ HandshakeFrame

\* if nmethods > 0 { read_exact_into(&mut inbound, &mut methods, ..).await?; }
socks5_methods ==
    /\ Filled("methods")
    /\ cin' = StreamDrop(cin, Need)
    /\ sk' = [sk EXCEPT !.methods = Got]
    /\ hpc' = "select"
    /\ UNCHANGED <<herr, toClient, dvars>>
    /\ HandshakeFrame

need_auth == creds.user.some \/ creds.pass.some
use_userpass == \E i \in 1..Len(sk.methods) : sk.methods[i] = 2

\* variant of socks5_select: without method 0x02 the handler goes on
socks5_select_lenient ==
    /\ hpc = "select"
    /\ IF need_auth /\ ~use_userpass
       THEN toClient' = toClient \o <<5, 255>> /\ hpc' = "request"
       ELSE toClient' = toClient \o <<5, IF need_auth THEN 2 ELSE 0>>
            /\ hpc' = IF need_auth THEN "sb_ver" ELSE "request"
    /\ UNCHANGED <<herr, cin, sk, dvars>>
    /\ HandshakeFrame

\* variant of socks5_select: without credentials configured, a greeting
\* that does not offer method 0x00 is refused
socks5_select_strict ==
    /\ hpc = "select"
    /\ \E ok \in BOOLEAN :
          IF ~ok THEN Bail("write failed") /\ toClient' = toClient
          ELSE IF (need_auth /\ ~use_userpass)
                  \/ (~need_auth /\ \A i \in 1..Len(sk.methods) : sk.methods[i] # 0)
          THEN /\ toClient' = toClient \o <<5, 255>>
               /\ Bail("client doesn't support username/password auth")
          ELSE /\ toClient' = toClient \o <<5, IF need_auth THEN 2 ELSE 0>>
               /\ hpc' = IF need_auth THEN "sb_ver" ELSE "request"
               /\ herr' = herr
    /\ UNCHANGED <<cin, sk, dvars>>
    /\ HandshakeFrame

\* the method selection reply (socks5.rs lines 32-35 and 45)
socks5_select ==
    /\ hpc = "select"
    /\ \E ok \in BOOLEAN :
          IF ~ok THEN Bail("write failed") /\ toClient' = toClient
          ELSE IF need_auth /\ ~use_userpass
          THEN /\ toClient' = toClient \o <<5, 255>>
               /\ Bail("client doesn't support username/password auth")
          ELSE /\ toClient' = toClient \o <<5, IF need_auth THEN 2 ELSE 0>>
               /\ hpc' = IF need_auth THEN "sb_ver" ELSE "request"
               /\ herr' = herr
    /\ UNCHANGED <<cin, sk, dvars>>
    /\ HandshakeFrame

\* let mut sb_ver = [0u8;1]; read_exact_into(..).await?;
\* if sb_ver[0] != 0x01 { bail!("invalid auth subnegotiation version"); }
socks5_sb_ver ==
    /\ Filled("sb_ver")
    /\ cin' = StreamDrop(cin, Need)
    /\ IF Got[1] # 1
       THEN Bail("invalid auth subnegotiation version")
       ELSE hpc' = "ulen" /\ herr' = herr
    /\ UNCHANGED <<toClient, sk, dvars>>
    /\ HandshakeFrame

\* let mut ulen_b = [0u8;1]; read_exact_into(..).await?;
socks5_ulen ==
    /\ Filled("ulen")
    /\ cin' = StreamDrop(cin, Need)
    /\ sk' = [sk EXCEPT !.ulen = Got[1]]
    /\ hpc' = IF Got[1] > 0 THEN "uname" ELSE "plen"
    /\ UNCHANGED <<herr, toClient, dvars>>
    /\ HandshakeFrame

\* if ulen>0 { read_exact_into(&mut inbound, &mut ubytes, ..).await?; }
socks5_uname ==
    /\ Filled("uname")
    /\ cin' = StreamDrop(cin, Need)
    /\ sk' = [sk EXCEPT !.ubytes = Got]
    /\ hpc' = "plen"
    /\ UNCHANGED <<herr, toClient, dvars>>
    /\ HandshakeFrame

\* let mut plen_b = [0u8;1]; read_exact_into(..).await?;
socks5_plen ==
    /\ Filled("plen")
    /\ cin' = StreamDrop(cin, Need)
    /\ sk' = [sk EXCEPT !.plen = Got[1]]
    /\ hpc' = IF Got[1] > 0 THEN "passwd" ELSE "auth"
    /\ UNCHANGED <<herr, toClient, dvars>>
    /\ HandshakeFrame

\* if plen>0 { read_exact_into(&mut inbound, &mut pbytes, ..).await?; }
socks5_passwd ==
    /\ Filled("passwd")
    /\ cin' = StreamDrop(cin, Need)
    /\ sk' = [sk EXCEPT !.pbytes = Got]
    /\ hpc' = "auth"
    /\ UNCHANGED <<herr, toClient, dvars>>
    /\ HandshakeFrame

\* user.map(|u| u.as_bytes().to_vec()).as_deref() == Some(&ubytes[..])
option_is(opt, bytes) == opt.some /\ str_bytes(opt.v) = bytes

\* variant of auth_ok: the password is not compared
auth_ok_user_only == option_is(creds.user, sk.ubytes)

\* variant of auth_ok: what is not configured is not compared
auth_ok_either ==
    /\ creds.user.some => option_is(creds.user, sk.ubytes)
    /\ creds.pass.some => option_is(creds.pass, sk.pbytes)

auth_ok == option_is(creds.user, sk.ubytes) /\ option_is(creds.pass, sk.pbytes)

\* variant of socks5_auth: after 01 01 the handler goes on to the request
socks5_auth_lenient ==
    /\ hpc = "auth"
    /\ \E ok \in BOOLEAN :
          IF ~ok THEN Bail("write failed") /\ toClient' = toClient
          ELSE /\ toClient' = toClient \o <<1, IF auth_ok THEN 0 ELSE 1>>
               /\ hpc' = "request"
               /\ herr' = herr
    /\ UNCHANGED <<cin, sk, dvars>>
    /\ HandshakeFrame

\* if ok { write_all(&[0x01, 0x00]) } else { write_all(&[0x01, 0x01]); bail! }
socks5_auth ==
    /\ hpc = "auth"
    /\ \E ok \in BOOLEAN :
          IF ~ok THEN Bail("write failed") /\ toClient' = toClient
          ELSE IF auth_ok
          THEN /\ toClient' = toClient \o <<1, 0>>
               /\ hpc' = "request"
               /\ herr' = herr
          ELSE /\ toClient' = toClient \o <<1, 1>>
               /\ Bail("invalid username/password")
    /\ UNCHANGED <<cin, sk, dvars>>
    /\ HandshakeFrame

\* let mut h = [0u8; 4]; read_exact_into(..).await?;
\* if h[0] != 5 { bail! }  let cmd = h[1]; let atyp = h[3];
\* match atyp { .. _ => bail!("Unsupported ATYP") }
socks5_request ==
    /\ Filled("request")
    /\ cin' = StreamDrop(cin, Need)
    /\ IF Got[1] # 5
       THEN Bail("Invalid SOCKS5 version in request") /\ sk' = sk
       ELSE IF Got[4] \notin {1, 3, 4}
       THEN Bail("Unsupported ATYP") /\ sk' = sk
       ELSE /\ sk' = [sk EXCEPT !.cmd = Got[2], !.atyp = Got[4]]
            /\ hpc' = "addr"
            /\ herr' = herr
    /\ UNCHANGED <<toClient, dvars>>
    /\ HandshakeFrame

\* the first read of each arm of `match atyp`: the IPv4 address, the length
\* of the domain name, or the IPv6 address
socks5_addr ==
    /\ Filled("addr")
    /\ cin' = StreamDrop(cin, Need)
    /\ CASE sk.atyp = 1 ->
              /\ sk' = [sk EXCEPT !.target_host = ipv4_to_string(Got)]
              /\ hpc' = "port"
         [] sk.atyp = 3 ->
              /\ sk' = [sk EXCEPT !.len = Got[1]]
              /\ hpc' = IF Got[1] > 0 THEN "name" ELSE "port"
         [] OTHER ->
              /\ sk' = [sk EXCEPT !.target_host = ipv6_to_string(Got)]
              /\ hpc' = "port"
    /\ UNCHANGED <<herr, toClient, dvars>>
    /\ HandshakeFrame

\* if len>0 { read_exact_into(&mut inbound, &mut hb, ..).await?; }
\* let host = String::from_utf8_lossy(&hb).to_string();
socks5_name ==
    /\ Filled("name")
    /\ cin' = StreamDrop(cin, Need)
    /\ sk' = [sk EXCEPT !.target_host = bytes_lossy(Got)]
    /\ hpc' = "port"
    /\ UNCHANGED <<herr, toClient, dvars>>
    /\ HandshakeFrame

\* let mut p = [0u8;2]; read_exact_into(..).await?; u16::from_be_bytes(p)
socks5_port ==
    /\ Filled("port")
    /\ cin' = StreamDrop(cin, Need)
    /\ sk' = [sk EXCEPT !.target_port = from_be_bytes(Got)]
    /\ hpc' = "cmd"
    /\ UNCHANGED <<herr, toClient, dvars>>
    /\ HandshakeFrame

\* variant of socks5_cmd: every command is served as CONNECT
socks5_cmd_any ==
    /\ hpc = "cmd"
    /\ hpc' = "dial"
    /\ dpc' = "lookup"
    /\ dhost' = sk.target_host
    /\ dport' = sk.target_port
    /\ UNCHANGED <<herr, cin, toClient, sk>>
    /\ UNCHANGED <<iface, resolver, addrs, sa, last_err, dret, sockets, syscalls>>
    /\ HandshakeFrame

\* match cmd { 0x01 => connect_outbound(&target_host, target_port, iface) ..
\*             0x03 => bail!("UDP ASSOC not supported")
\*             _ => bail!("Unsupported CMD") }
socks5_cmd ==
    /\ hpc = "cmd"
    /\ CASE sk.cmd = 1 ->
              /\ hpc' = "dial"
              /\ herr' = herr
              /\ dpc' = "lookup"
              /\ dhost' = sk.target_host
              /\ dport' = sk.target_port
         [] sk.cmd = 3 ->
              /\ Bail("UDP ASSOC not supported")
              /\ UNCHANGED <<dpc, dhost, dport>>
         [] OTHER ->
              /\ Bail("Unsupported CMD")
              /\ UNCHANGED <<dpc, dhost, dport>>
    /\ UNCHANGED <<cin, toClient, sk>>
    /\ UNCHANGED <<iface, resolver, addrs, sa, last_err, dret, sockets, syscalls>>
    /\ HandshakeFrame

Succeeded == <<5, 0, 0, 1, 0, 0, 0, 0, 0, 0>>

\* variant of socks5_reply: the reply is written whatever connect_outbound
\* returned
socks5_reply_early ==
    /\ DialReturned
    /\ toClient' = toClient \o Succeeded
    /\ IF dret.ok THEN hpc' = "relay" /\ herr' = herr
       ELSE Bail(dret.err.kind)
    /\ UNCHANGED <<cin, sk, dvars>>
    /\ HandshakeFrame

\* let mut outbound = connect_outbound(..).await?;
\* inbound.write_all(&[0x05, 0x00, 0x00, 0x01, 0,0,0,0, 0,0]).await?;
socks5_reply ==
    /\ DialReturned
    /\ IF ~dret.ok
       THEN Bail(dret.err.kind) /\ toClient' = toClient
       ELSE \E ok \in BOOLEAN :
              IF ok
              THEN /\ toClient' = toClient \o Succeeded
                   /\ hpc' = "relay"
                   /\ herr' = herr
              ELSE Bail("write failed") /\ toClient' = toClient
    /\ UNCHANGED <<cin, sk, dvars>>
    /\ HandshakeFrame

\* timeout(Duration::from_millis(session_timeout_ms), copy_bidirectional(..))
\* elapsed: the relay is dropped and `??` returns the Elapsed error
session_timeout ==
    /\ hpc = "relay"
    /\ Bail("deadline has elapsed")
    /\ UNCHANGED <<cin, toClient, sk, dvars>>
    /\ HandshakeFrame

handle_socks5 ==
    \/ read_exact_timeout
    \/ read_exact_eof
    \/ socks5_greeting
    \/ socks5_methods
    \/ socks5_select
    \/ socks5_sb_ver
    \/ socks5_ulen
    \/ socks5_uname
    \/ socks5_plen
    \/ socks5_passwd
    \/ socks5_auth
    \/ socks5_request
    \/ socks5_addr
    \/ socks5_name
    \/ socks5_port
    \/ socks5_cmd
    \/ socks5_reply
    \/ session_timeout
    \/ copy_c2s
    \/ copy_s2c
    \/ copy_error
    \/ copy_finished

---------------------------------------------------------------------------
(* The SOCKS5 clients.  A client is kept as the parts of what it means to  *)
(* send (req) and sends the first req.sent bytes of ClientBytes(req).      *)

Configs ==
    {[user |-> None, pass |-> None],
     [user |-> Some(B("u")), pass |-> Some(B("p"))],
     [user |-> Some(B("u")), pass |-> None],
     [user |-> None, pass |-> Some(B("p"))]}

Greeting(ver, methods) == [ver |-> ver, methods |-> methods]
Greetings ==
    {Greeting(5, m) : m \in {<<>>, <<0>>, <<2>>, <<0, 2>>, <<1>>}}
    \cup {Greeting(4, <<0>>)}

NoAuth == [sent |-> FALSE, ver |-> 0, user |-> <<>>, pass |-> <<>>]
Auth(ver, u, p) == [sent |-> TRUE, ver |-> ver, user |-> B(u), pass |-> B(p)]
Auths ==
    {NoAuth, Auth(1, "u", "p"), Auth(1, "u", "q"), Auth(1, "v", "p"),
     Auth(1, "", ""), Auth(1, "u", ""), Auth(1, "", "p"), Auth(2, "u", "p")}

V4Addr == <<1, 2, 3, 4>>
V6Addr == [i \in 1..16 |-> IF i = 16 THEN 1 ELSE 0]
Connect(ver, cmd, atyp, port) == [ver |-> ver, cmd |-> cmd, atyp |-> atyp, port |-> port]
DomainConnect == Connect(5, 1, 3, <<0, 80>>)
SocksRequests ==
    {Connect(5, cmd, atyp, port) :
        cmd \in {1, 2, 3}, atyp \in {1, 3, 4, 5},
        port \in {<<0, 80>>, <<1, 2>>, <<0, 0>>}}
    \cup {Connect(4, 1, 1, <<0, 80>>)}

Payload == <<99>>
SocksResponse == <<114>>

Client(g, a, r, sent) == [greet |-> g, auth |-> a, request |-> r, sent |-> sent]

GreetingBytes(g) == <<g.ver, Len(g.methods)>> \o g.methods
AuthBytes(a) ==
    IF a.sent
    THEN <<a.ver, Len(a.user)>> \o str_bytes(a.user)
         \o <<Len(a.pass)>> \o str_bytes(a.pass)
    ELSE <<>>
AddrBytes(r) ==
    CASE r.atyp = 1 -> V4Addr
      [] r.atyp = 3 -> <<1>> \o str_bytes(B("h"))
      [] r.atyp = 4 -> V6Addr
      [] OTHER -> <<>>
ConnectBytes(r) == <<r.ver, r.cmd, 0, r.atyp>> \o AddrBytes(r) \o r.port
ClientBytes(c) ==
    GreetingBytes(c.greet) \o AuthBytes(c.auth) \o ConnectBytes(c.request)
    \o Payload

Whole(g, a, r) ==
    Client(g, a, r, Len(ClientBytes(Client(g, a, r, 0))))

\* clients that send everything: every greeting and subnegotiation with a
\* domain-name CONNECT, and every request after a plain greeting
WholeClients ==
    {Whole(g, a, DomainConnect) : g \in Greetings, a \in Auths}
    \cup {Whole(Greeting(5, <<0>>), NoAuth, r) : r \in SocksRequests}
    \cup {Whole(Greeting(5, <<2>>), Auth(1, "u", "p"), r) :
             r \in {Connect(5, 3, 1, <<0, 80>>), Connect(5, 1, 5, <<0, 80>>),
                    Connect(5, 1, 4, <<0, 80>>)}}

\* clients that stop after some bytes, at most MaxSent
MaxSent == 12
PartialClients ==
    LET full == {Whole(Greeting(5, <<2>>), Auth(1, "u", "p"), DomainConnect),
                 Whole(Greeting(5, <<0>>), NoAuth, Connect(5, 1, 1, <<0, 80>>)),
                 Whole(Greeting(5, <<0>>), NoAuth, Connect(5, 1, 4, <<0, 80>>))}
    IN  {[c EXCEPT !.sent = k] : c \in full, k \in 0..MaxSent}

SocksAccepted ==
    /\ cin = Stream(0, Take(ClientBytes(req), req.sent))
    /\ srv = Stream(0, SocksResponse)
    /\ hpc = "greeting"
    /\ sk = NoLocals
    /\ buf = Empty
    /\ parsed = NotParsed
    /\ herr = ""
    /\ toClient = <<>>
    /\ toUpstream = <<>>
    /\ c2s_done = FALSE
    /\ s2c_done = FALSE
    /\ rerr = NoRelayErr

\* one accepted SOCKS5 connection
InitSocks ==
    /\ LogIdle
    /\ ListenIdle
    /\ iface = "en0"
    /\ resolver = {<<>>, <<"v4">>}
    /\ DialIdle
    /\ \/ /\ req \in WholeClients
          /\ creds \in Configs
          /\ c_closes = TRUE
          /\ s_closes = TRUE
       \/ /\ req \in PartialClients
          /\ creds = [user |-> Some(B("u")), pass |-> Some(B("p"))]
                       \/ creds = [user |-> None, pass |-> None]
          /\ c_closes \in BOOLEAN
          /\ s_closes = TRUE
       \/ /\ req = Whole(Greeting(5, <<0>>), NoAuth, DomainConnect)
          /\ creds = [user |-> None, pass |-> None]
          /\ c_closes \in BOOLEAN
          /\ s_closes \in BOOLEAN
    /\ SocksAccepted

SpecSocks == InitSocks /\ [][handle_socks5 \/ connect_outbound]_vars

\* the steps of the relay that happen once the byte, the end of stream or
\* the return they wait for is there (an I/O error need not happen)
relay_progress == copy_c2s \/ copy_s2c \/ copy_finished

\* the steps of handle_socks5 before the relay
socks5_handshake ==
    \/ read_exact_timeout
    \/ read_exact_eof
    \/ socks5_greeting
    \/ socks5_methods
    \/ socks5_select
    \/ socks5_sb_ver
    \/ socks5_ulen
    \/ socks5_uname
    \/ socks5_plen
    \/ socks5_passwd
    \/ socks5_auth
    \/ socks5_request
    \/ socks5_addr
    \/ socks5_name
    \/ socks5_port
    \/ socks5_cmd
    \/ socks5_reply

\* the runtime polls the handler whenever a read, a write or a timer of it
\* is ready, and the dialer likewise
SpecSocksLive ==
    /\ SpecSocks
    /\ WF_vars(socks5_handshake)
    /\ WF_vars(relay_progress)
    /\ WF_vars(session_timeout)
    /\ WF_vars(connect_outbound)

---------------------------------------------------------------------------
(* Properties of the SOCKS5 front-end.                                     *)

Configured == creds.user.some \/ creds.pass.some

\* the positions of handle_socks5 up to the method selection, up to the
\* reply to the subnegotiation, and up to the end of the request
UpToSelect == {"greeting", "methods", "select"}
UpToAuth == UpToSelect \cup {"sb_ver", "ulen", "uname", "plen", "passwd", "auth"}
UpToCmd == UpToAuth \cup {"request", "addr", "name", "port", "cmd"}

\* how many bytes of the client the handler has read
Consumed == req.sent - Avail(cin)

Offers(m) == \E i \in 1..Len(req.greet.methods) : req.greet.methods[i] = m

\* C12: with credentials configured, a client whose greeting does not offer
\* method 0x02 receives exactly 05 FF and the handler ends there: it reads
\* nothing after the greeting, dials nothing and writes nothing else.
C12_NoAcceptableMethod ==
    (Configured /\ req.greet.ver = 5 /\ ~Offers(2)) =>
       /\ hpc \in UpToSelect \cup {"err"}
       /\ toClient \in {<<>>, <<5, 255>>}
       /\ toClient = <<5, 255>> <=>
             (hpc = "err"
              /\ herr = "client doesn't support username/password auth")
       /\ Consumed <= Len(GreetingBytes(req.greet))
       /\ dpc = "idle"
       /\ toUpstream = <<>>

\* a client offering only method 0x00 has been refused
C12_Witness ==
    /\ Configured
    /\ req.greet = Greeting(5, <<0>>)
    /\ toClient = <<5, 255>>
    /\ hpc = "err"

\* the client sent a subnegotiation of version 1 after a greeting that
\* offers 0x02, to a handler with credentials configured
Subnegotiated ==
    /\ Configured
    /\ req.greet.ver = 5
    /\ Offers(2)
    /\ req.auth.sent
    /\ req.auth.ver = 1
    /\ req.sent >= Len(GreetingBytes(req.greet)) + Len(AuthBytes(req.auth))

\* the username and password sent are the configured user and pass
SameCredentials ==
    /\ creds.user.some
    /\ creds.pass.some
    /\ req.auth.user = creds.user.v
    /\ req.auth.pass = creds.pass.v

\* C13: the reply to the subnegotiation is 01 00 exactly when the username
\* and password received equal the configured user and pass; otherwise it
\* is 01 01 and the handler ends without reading the request.
C13_Subnegotiation ==
    Subnegotiated =>
       /\ Len(toClient) >= 4 =>
             SubSeq(toClient, 3, 4) =
                 (IF SameCredentials THEN <<1, 0>> ELSE <<1, 1>>)
       /\ (hpc \notin UpToAuth \cup {"err"}) => Len(toClient) >= 4
       /\ ~SameCredentials =>
             /\ hpc \in UpToAuth \cup {"err"}
             /\ Consumed <= Len(GreetingBytes(req.greet)) + Len(AuthBytes(req.auth))
             /\ dpc = "idle"

\* the configured credentials were accepted and the tunnel is up
C13_Witness ==
    /\ Subnegotiated
    /\ SameCredentials
    /\ toClient = <<5, 2, 1, 0>> \o Succeeded
    /\ hpc = "relay"

\* what the handler writes before it reads the request
Prelude == IF Configured THEN <<5, 2, 1, 0>> ELSE <<5, 0>>

\* the bytes of the server relayed to the client so far
SocksRelayed == Take(SocksResponse, Len(SocksResponse) - Avail(srv))

\* C14: the reply to a CONNECT that succeeded is 05 00 00 01 00 00 00 00 00
\* 00: it is written only after connect_outbound succeeded, it is the first
\* thing written after the handshake replies, and relayed bytes of the
\* server follow it.
C14_SuccessReply ==
    /\ Len(toClient) > Len(Prelude) =>
          /\ dpc = "ret" /\ dret.ok /\ sockets[dret.sock].connected
          /\ toClient = Prelude \o <<5, 0, 0, 1, 0, 0, 0, 0, 0, 0>> \o SocksRelayed
    /\ SocksRelayed # <<>> => Len(toClient) > Len(Prelude)
    /\ hpc \in {"relay", "done"} => Len(toClient) > Len(Prelude)

\* a CONNECT to 1.2.3.4:80 served to the end
C14_Witness ==
    /\ req.request = Connect(5, 1, 1, <<0, 80>>)
    /\ dhost = B("1.2.3.4")
    /\ dport = 80
    /\ hpc = "done"
    /\ toClient = <<5, 0>> \o Succeeded \o SocksResponse

\* the handler reads the client's request as the request
RequestReached ==
    /\ req.greet = Greeting(5, <<0>>) \/ req.greet = Greeting(5, <<2>>)
    /\ Configured <=> req.auth.sent

\* C15: a request with VER other than 5, CMD other than 0x01 or ATYP
\* outside {1, 3, 4} makes the handler fail: connect_outbound is not called
\* and no success reply is written.
C15_RequestRefused ==
    (RequestReached
       /\ (req.request.ver # 5 \/ req.request.cmd # 1
           \/ req.request.atyp \notin {1, 3, 4})) =>
       /\ hpc \in UpToCmd \cup {"err"}
       /\ dpc = "idle"
       /\ syscalls = <<>>
       /\ Len(toClient) <= Len(Prelude)
       /\ toUpstream = <<>>

\* UDP ASSOCIATE for an IPv6 address has been refused
C15_Witness ==
    /\ req.request = Connect(5, 3, 4, <<0, 80>>)
    /\ hpc = "err"
    /\ herr = "UDP ASSOC not supported"

\* the handler waits in a read_exact_into for bytes of a client that sends
\* no more and does not close
Silent ==
    /\ hpc \in ReadPositions
    /\ Avail(cin) < Need
    /\ ~c_closes

TimedOut == hpc = "err" /\ herr = "read timeout"

\* C16: when the client stays silent during any read of the handshake, the
\* only thing the handler does is fail with `read timeout`, and it does.
C16_HandshakeBounded ==
    /\ [][Silent => TimedOut']_vars
    /\ Silent ~> TimedOut

\* a client that went silent inside the subnegotiation has timed out
C16_Witness ==
    /\ req.auth.sent
    /\ req.sent = 6
    /\ ~c_closes
    /\ Consumed = 5
    /\ TimedOut

---------------------------------------------------------------------------
(* The relay of the HTTP front-end with peers that may stay silent.        *)

\* one accepted HTTP connection whose peers, once their bytes are sent,
\* either close or stay silent
InitHttpLive ==
    /\ SocksIdle
    /\ LogIdle
    /\ ListenIdle
    /\ iface = "en0"
    /\ resolver = {<<>>, <<"v4">>}
    /\ DialIdle
    /\ req \in {Request(l, <<>>, b) :
                  l \in PlainLines \cup ConnectLines, b \in Bodies}
    /\ Accepted(Stream(0, RequestBytes(req)))
    /\ c_closes \in BOOLEAN
    /\ s_closes \in BOOLEAN
    /\ rerr = NoRelayErr

\* the runtime polls the relay whenever a read of it is ready, and the
\* dialer likewise
SpecHttpLive ==
    /\ InitHttpLive
    /\ [][handle_http_proxy \/ connect_outbound]_vars
    /\ WF_vars(relay_progress)
    /\ WF_vars(connect_outbound)

\* C17: the relay of a proxied connection is bounded by the session
\* timeout: once it has started it ends, finished or abandoned with an
\* error.
C17_SessionTimeout == (hpc = "relay") ~> (hpc \in {"done", "err"})

\* how much of its request a client has sent when it stops sending: nothing,
\* the request short of the last byte of CRLF CRLF, or all of it
SentBeforeSilence(r) ==
    {0, find(RequestBytes(r), CRLFCRLF) + 2, Len(RequestBytes(r))}

\* one accepted HTTP connection whose client sends a part of its request and
\* then closes or stays silent
InitHttpSilent ==
    /\ SocksIdle
    /\ LogIdle
    /\ ListenIdle
    /\ iface = "en0"
    /\ resolver = {<<>>, <<"v4">>}
    /\ DialIdle
    /\ req \in {Request(l, <<>>, b) :
                  l \in PlainLines \cup ConnectLines, b \in Bodies}
    /\ \E k \in SentBeforeSilence(req) :
          Accepted(Stream(0, Take(RequestBytes(req), k)))
    /\ c_closes \in BOOLEAN
    /\ s_closes \in BOOLEAN
    /\ rerr = NoRelayErr

\* the runtime polls the handler whenever a read of the client socket is
\* ready, in the header loop as in the relay, and the dialer likewise
SpecHttpSilent ==
    /\ InitHttpSilent
    /\ [][handle_http_proxy \/ connect_outbound]_vars
    /\ WF_vars(read_http_headers)
    /\ WF_vars(relay_progress)
    /\ WF_vars(connect_outbound)

\* C37: an HTTP handler does not wait for the request headers forever: a
\* handler that is reading them eventually leaves the read, with the headers
\* or with an error.
C37_HandshakeBounded == (hpc = "read") ~> (hpc # "read")

\* the kinds of I/O error of the transient category (util.rs lines 142-146)
\* among IoErrors
TransientKinds == {"connection reset"}

\* C18: a transient I/O error in one direction of the relay does not fail
\* the relay: the handler goes on relaying or returns successfully.
C18_TransientError ==
    rerr.kind \in TransientKinds => hpc \in {"relay", "done"}

ends_with(str, pat) ==
    Len(str) >= Len(pat) /\ Drop(str, Len(str) - Len(pat)) = pat

\* C19: the relay returns only after both directions have seen their end
\* of stream, and by then every byte the client sent after the buffered
\* preamble has been written to upstream and every byte of the server to
\* the client, whichever direction ended first.
C19_HalfClose ==
    hpc = "done" =>
       /\ c2s_done
       /\ s2c_done
       /\ Avail(cin) = 0
       /\ Avail(srv) = 0
       /\ ends_with(toUpstream, Drop(RequestBytes(req), Avail(buf)))
       /\ ends_with(toClient, Response)

\* the client has closed first, and the server's bytes are relayed still
C19_Witness ==
    /\ hpc = "relay"
    /\ c2s_done
    /\ ~s2c_done
    /\ Avail(srv) > 0
    /\ req.body # <<>>
    /\ ends_with(toUpstream, req.body)
    /\ ENABLED copy_s2c

---------------------------------------------------------------------------
(* util.rs: log_throttled, called concurrently by the threads of the       *)
(* runtime.  Each access of an atomic, each reading of the clock and the   *)
(* call of the closure is one step.                                        *)

LOGS_PER_SEC == 50

MaxThreads == 2
MaxClock == 2
\* the calls of log_throttled made after the initial state
MaxCalls == 52

Threads == 1..MaxThreads

Idle == [pc |-> "idle", now |-> 0, window |-> 0]

\* what a step of log_throttled leaves alone
LogFrame == UNCHANGED <<dvars, hvars, kvars, svars, avars>>

\* log_log(format!("suppressed {} messages in last 1s", suppressed)),
\* written by the caller that rolled the window to the second now
SuppressedLine(n, now) == [at |-> clock, n |-> n, now |-> now]

\* the wall clock passes to the next second
tick ==
    /\ clock < MaxClock
    /\ clock' = clock + 1
    /\ UNCHANGED <<LOG_WINDOW_SEC, LOG_COUNT, LOG_SUPPRESSED, callers, emitted>>
    /\ LogFrame

\* let now = now_sec();
log_throttled_now(t) ==
    /\ callers[t].pc = "idle"
    /\ emitted.calls < MaxCalls
    /\ callers' = [callers EXCEPT ![t] = [pc |-> "load", now |-> clock, window |-> 0]]
    /\ emitted' = [emitted EXCEPT !.calls = @ + 1]
    /\ UNCHANGED <<clock, LOG_WINDOW_SEC, LOG_COUNT, LOG_SUPPRESSED>>
    /\ LogFrame

\* let window = LOG_WINDOW_SEC.load(Ordering::Relaxed); if now != window {
log_throttled_load(t) ==
    /\ callers[t].pc = "load"
    /\ callers' = [callers EXCEPT
          ![t].window = LOG_WINDOW_SEC,
          ![t].pc = IF callers[t].now # LOG_WINDOW_SEC THEN "cas" ELSE "count"]
    /\ UNCHANGED <<clock, LOG_WINDOW_SEC, LOG_COUNT, LOG_SUPPRESSED, emitted>>
    /\ LogFrame

\* if LOG_WINDOW_SEC.compare_exchange(window, now, SeqCst, SeqCst).is_ok() {
log_throttled_cas(t) ==
    /\ callers[t].pc = "cas"
    /\ IF LOG_WINDOW_SEC = callers[t].window
       THEN /\ LOG_WINDOW_SEC' = callers[t].now
            /\ callers' = [callers EXCEPT ![t].pc = "swap"]
            /\ emitted' = [emitted EXCEPT !.wins[callers[t].now] = @ + 1]
       ELSE /\ LOG_WINDOW_SEC' = LOG_WINDOW_SEC
            /\ callers' = [callers EXCEPT ![t].pc = "count"]
            /\ emitted' = emitted
    /\ UNCHANGED <<clock, LOG_COUNT, LOG_SUPPRESSED>>
    /\ LogFrame

\* variant of log_throttled_swap: the counter is reset and no line is
\* written
log_throttled_swap_silent(t) ==
    /\ callers[t].pc = "swap"
    /\ LOG_SUPPRESSED' = 0
    /\ callers' = [callers EXCEPT ![t].pc = "store"]
    /\ UNCHANGED <<clock, LOG_WINDOW_SEC, LOG_COUNT, emitted>>
    /\ LogFrame

\* let suppressed = LOG_SUPPRESSED.swap(0, Ordering::SeqCst);
\* if suppressed > 0 { log_log(format!("suppressed {} messages ..")); }
log_throttled_swap(t) ==
    /\ callers[t].pc = "swap"
    /\ LOG_SUPPRESSED' = 0
    /\ emitted' = IF LOG_SUPPRESSED > 0
                  THEN [emitted EXCEPT !.lines =
                           Append(@, SuppressedLine(LOG_SUPPRESSED,
                                                    callers[t].now))]
                  ELSE emitted
    /\ callers' = [callers EXCEPT ![t].pc = "store"]
    /\ UNCHANGED <<clock, LOG_WINDOW_SEC, LOG_COUNT>>
    /\ LogFrame

\* variant of log_throttled_store: the count is not reset by a store that
\* can follow other callers' increments
log_throttled_store_kept(t) ==
    /\ callers[t].pc = "store"
    /\ callers' = [callers EXCEPT ![t].pc = "count"]
    /\ UNCHANGED <<clock, LOG_WINDOW_SEC, LOG_COUNT, LOG_SUPPRESSED, emitted>>
    /\ LogFrame

\* LOG_COUNT.store(0, Ordering::SeqCst);
log_throttled_store(t) ==
    /\ callers[t].pc = "store"
    /\ LOG_COUNT' = 0
    /\ callers' = [callers EXCEPT ![t].pc = "count"]
    /\ UNCHANGED <<clock, LOG_WINDOW_SEC, LOG_SUPPRESSED, emitted>>
    /\ LogFrame

\* let c = LOG_COUNT.fetch_add(1, Ordering::SeqCst); if c < LOGS_PER_SEC {
log_throttled_count(t) ==
    /\ callers[t].pc = "count"
    /\ LOG_COUNT' = LOG_COUNT + 1
    /\ callers' = [callers EXCEPT
          ![t].pc = IF LOG_COUNT < LOGS_PER_SEC THEN "emit" ELSE "suppress"]
    /\ UNCHANGED <<clock, LOG_WINDOW_SEC, LOG_SUPPRESSED, emitted>>
    /\ LogFrame

\* f();
log_throttled_emit(t) ==
    /\ callers[t].pc = "emit"
    /\ emitted' = [emitted EXCEPT !.at[clock] = @ + 1]
    /\ callers' = [callers EXCEPT ![t] = Idle]
    /\ UNCHANGED <<clock, LOG_WINDOW_SEC, LOG_COUNT, LOG_SUPPRESSED>>
    /\ LogFrame

\* LOG_SUPPRESSED.fetch_add(1, Ordering::SeqCst);
log_throttled_suppress(t) ==
    /\ callers[t].pc = "suppress"
    /\ LOG_SUPPRESSED' = LOG_SUPPRESSED + 1
    /\ emitted' = [emitted EXCEPT !.dropped[callers[t].now] = @ + 1]
    /\ callers' = [callers EXCEPT ![t] = Idle]
    /\ UNCHANGED <<clock, LOG_WINDOW_SEC, LOG_COUNT>>
    /\ LogFrame

log_throttled ==
    \E t \in Threads :
       \/ log_throttled_now(t)
       \/ log_throttled_load(t)
       \/ log_throttled_cas(t)
       \/ log_throttled_swap(t)
       \/ log_throttled_store(t)
       \/ log_throttled_count(t)
       \/ log_throttled_emit(t)
       \/ log_throttled_suppress(t)

\* one thread has called log_throttled LOGS_PER_SEC - 1 times in second 1,
\* one call after the other, and every call has returned.  Either the
\* clock is still in second 1 and a few calls follow, or it has moved on
\* and MaxCalls calls follow.
InitLog ==
    /\ PeersClose
    /\ ListenIdle
    /\ SocksIdle
    /\ HttpIdle
    /\ iface = "en0"
    /\ resolver = {<<>>}
    /\ DialIdle
    /\ LOG_WINDOW_SEC = 1
    /\ LOG_COUNT = LOGS_PER_SEC - 1
    /\ LOG_SUPPRESSED = 0
    /\ callers = [t \in Threads |-> Idle]
    /\ \E first \in {0, MaxCalls - 2 * MaxThreads} :
          /\ clock = IF first = 0 THEN MaxClock ELSE 1
          /\ emitted = [calls |-> first,
                        at |-> [s \in 1..MaxClock |->
                                   IF s = 1 THEN LOGS_PER_SEC - 1 ELSE 0],
                        wins |-> [s \in 1..MaxClock |->
                                     IF s = 1 THEN 1 ELSE 0],
                        lines |-> <<>>,
                        dropped |-> [s \in 1..MaxClock |-> 0]]

SpecLog == InitLog /\ [][log_throttled \/ tick]_vars

\* C20: in no wall-clock second are more than LOGS_PER_SEC closures
\* invoked, whatever the interleaving of the callers.
C20_EmitLimit == \A s \in DOMAIN emitted.at : emitted.at[s] <= LOGS_PER_SEC

\* the "suppressed N" lines written in wall-clock second s
LinesAt(s) == {i \in DOMAIN emitted.lines : emitted.lines[i].at = s}

\* C21: for each wall-clock second exactly one caller wins the
\* compare_exchange that sets LOG_WINDOW_SEC to it, so the window is reset
\* once for that second, and at most one "suppressed N" line is written
\* in any one second.
C21_SingleWinner ==
    /\ \A s \in DOMAIN emitted.wins : emitted.wins[s] <= 1
    /\ \A s \in 1..MaxClock : Cardinality(LinesAt(s)) <= 1

\* the number of calls that read second s and were suppressed
Dropped(s) == IF s \in DOMAIN emitted.dropped THEN emitted.dropped[s] ELSE 0

\* the roll of the window to second s has been won and its winner has
\* passed the swap of LOG_SUPPRESSED
Rolled(s) ==
    /\ s \in DOMAIN emitted.wins
    /\ emitted.wins[s] > 0
    /\ \A t \in Threads : ~(callers[t].pc = "swap" /\ callers[t].now = s)

\* the "suppressed N" lines written by the callers that rolled to second s
LinesFor(s) == {i \in DOMAIN emitted.lines : emitted.lines[i].now = s}

\* C22: when calls were suppressed in a window, the roll to the next
\* window writes exactly one "suppressed N" line; N is the number of calls
\* suppressed in the window before; and no call of the new window is
\* counted before the winner of the roll has reset LOG_SUPPRESSED.
C22_SuppressedLine ==
    /\ \A s \in 1..(MaxClock - 1) :
          (Dropped(s) > 0 /\ Rolled(s + 1)) => Cardinality(LinesFor(s + 1)) = 1
    /\ \A i \in DOMAIN emitted.lines :
          emitted.lines[i].n = Dropped(emitted.lines[i].now - 1)
    /\ \A t \in Threads, u \in Threads :
          (callers[t].pc = "swap" /\ callers[u].now = callers[t].now)
             => callers[u].pc \notin {"emit", "suppress"}

---------------------------------------------------------------------------
(* The accept loops: run_http_proxy (http_proxy.rs) and                    *)
(* run_socks5_proxy_auth (socks5.rs), and the tasks they spawn.  The       *)
(* handler a task runs is followed here only as far as the loop and the    *)
(* semaphore can tell: it is in its handshake, it has dialed and relays,   *)
(* or it has returned, with Ok or with one of its errors.                  *)

\* max_concurrent_connections, the capacity of the semaphore
max_concurrent_connections == 2
\* the connections that arrive at the two listeners together
MaxConns == 3
\* the accept errors in a row
MaxFails == 6

\* u64::saturating_mul: the product, which stays below 2^64 for every
\* backoff the loop can hold
saturating_mul(a, b) == a * b

\* variant of next_backoff: doubled, with no cap
next_backoff_uncapped(b) == saturating_mul(b, 2)

\* backoff_ms = (backoff_ms.saturating_mul(2)).min(1000);
next_backoff(b) == Min(saturating_mul(b, 2), 1000)

\* let mut backoff_ms: u64 = 50;  (slept: the sleeps since the last
\* successful accept; inbound: the accepted connection the loop holds)
Listening == [pc |-> "accept", backoff_ms |-> 50, slept |-> <<>>, inbound |-> 0]

\* an accepted connection: the inbound socket is open and the loop owns it
Incoming(l) ==
    [via |-> l, pc |-> "accepted", permit |-> FALSE, inbound |-> TRUE,
     outbound |-> FALSE, result |-> "none"]

\* the errors a handler returns before it has dialed, and those it returns
\* from the relay
ProtocolErrors == {"bad request", "read timeout"}
DialErrors == {"dial failed"}
RelayResults == {"ok", "connection reset", "deadline has elapsed"}

\* the task ends: its future is dropped, and with it the sockets and the
\* permit it owns; the error is logged inside the task
\* variant: the permit stays with the ended task
task_end_keep_permit(c, r) ==
    /\ tasks' = [tasks EXCEPT ![c] = [@ EXCEPT !.pc = "ended", !.result = r,
                                         !.inbound = FALSE, !.outbound = FALSE]]
    /\ sem' = sem
    /\ listeners' = listeners

\* variant: the error of the handler ends the accept loop as well
task_end_propagate(c, r) ==
    /\ tasks' = [tasks EXCEPT ![c] = [@ EXCEPT !.pc = "ended", !.result = r,
                                         !.permit = FALSE,
                                         !.inbound = FALSE, !.outbound = FALSE]]
    /\ sem' = IF tasks[c].permit THEN sem + 1 ELSE sem
    /\ listeners' = IF r = "ok" THEN listeners
                    ELSE [listeners EXCEPT ![tasks[c].via].pc = "returned"]

task_end(c, r) ==
    /\ tasks' = [tasks EXCEPT ![c] = [@ EXCEPT !.pc = "ended", !.result = r,
                                         !.permit = FALSE,
                                         !.inbound = FALSE, !.outbound = FALSE]]
    /\ sem' = IF tasks[c].permit THEN sem + 1 ELSE sem
    /\ listeners' = listeners

ListenFrame == UNCHANGED <<dvars, hvars, kvars, svars, lvars>>

\* http_proxy.rs:112, 119: Ok of accept, and the handler is spawned
run_http_proxy_accept ==
    /\ listeners["http"].pc = "accept"
    /\ Len(tasks) < MaxConns
    /\ tasks' = Append(tasks, [Incoming("http") EXCEPT !.pc = "handshake"])
    /\ UNCHANGED <<listeners, sem>>
    /\ ListenFrame

\* http_proxy.rs:112: Err of accept, and `?` returns it from run_http_proxy
run_http_proxy_accept_err ==
    /\ listeners["http"].pc = "accept"
    /\ listeners' = [listeners EXCEPT !["http"].pc = "returned"]
    /\ UNCHANGED <<sem, tasks>>
    /\ ListenFrame

\* socks5.rs:78-79: Ok(v) => { backoff_ms = 50; v }
run_socks5_proxy_auth_accept ==
    /\ listeners["socks5"].pc = "accept"
    /\ Len(tasks) < MaxConns
    /\ listeners' = [listeners EXCEPT !["socks5"] =
                        [pc |-> "admit", backoff_ms |-> 50, slept |-> <<>>,
                         inbound |-> Len(tasks) + 1]]
    /\ tasks' = Append(tasks, Incoming("socks5"))
    /\ UNCHANGED sem
    /\ ListenFrame

\* socks5.rs:80-81: Err(e) => { log_error(..);
run_socks5_proxy_auth_accept_err ==
    /\ listeners["socks5"].pc = "accept"
    /\ Len(listeners["socks5"].slept) < MaxFails
    /\ listeners' = [listeners EXCEPT !["socks5"].pc = "sleep"]
    /\ UNCHANGED <<sem, tasks>>
    /\ ListenFrame

\* socks5.rs:82-84: sleep(backoff_ms); backoff_ms = ..; continue;
run_socks5_proxy_auth_sleep ==
    /\ listeners["socks5"].pc = "sleep"
    /\ listeners' = [listeners EXCEPT !["socks5"] =
          [pc |-> "accept",
           backoff_ms |-> next_backoff(@.backoff_ms),
           slept |-> Append(@.slept, @.backoff_ms),
           inbound |-> 0]]
    /\ UNCHANGED <<sem, tasks>>
    /\ ListenFrame

\* socks5.rs:93-96: try_acquire_owned is Ok(permit), and the task that is
\* spawned owns the permit
run_socks5_proxy_auth_admit ==
    /\ listeners["socks5"].pc = "admit"
    /\ sem > 0
    /\ sem' = sem - 1
    /\ tasks' = [tasks EXCEPT ![listeners["socks5"].inbound] =
                    [@ EXCEPT !.pc = "handshake", !.permit = TRUE]]
    /\ listeners' = [listeners EXCEPT !["socks5"].pc = "accept",
                                      !["socks5"].inbound = 0]
    /\ ListenFrame

\* socks5.rs:106-108: try_acquire_owned is Err; inbound is dropped at the
\* end of the iteration
run_socks5_proxy_auth_drop ==
    /\ listeners["socks5"].pc = "admit"
    /\ sem = 0
    /\ tasks' = [tasks EXCEPT ![listeners["socks5"].inbound] =
                    [@ EXCEPT !.pc = "dropped", !.inbound = FALSE]]
    /\ listeners' = [listeners EXCEPT !["socks5"].pc = "accept",
                                      !["socks5"].inbound = 0]
    /\ UNCHANGED sem
    /\ ListenFrame

\* the handler returns an error before the dial: a malformed request, or
\* (SOCKS5 only, read_exact_into) a read timeout
task_protocol_err ==
    \E c \in DOMAIN tasks, e \in ProtocolErrors :
       /\ tasks[c].pc = "handshake"
       /\ e = "read timeout" => tasks[c].via = "socks5"
       /\ task_end(c, e)
       /\ ListenFrame

\* connect_outbound(..).await? returns Err
task_dial_err ==
    \E c \in DOMAIN tasks, e \in DialErrors :
       /\ tasks[c].pc = "handshake"
       /\ task_end(c, e)
       /\ ListenFrame

\* connect_outbound returns the outbound stream, and the relay starts
task_dial ==
    \E c \in DOMAIN tasks :
       /\ tasks[c].pc = "handshake"
       /\ tasks' = [tasks EXCEPT ![c] = [@ EXCEPT !.pc = "relay",
                                            !.outbound = TRUE]]
       /\ UNCHANGED <<listeners, sem>>
       /\ ListenFrame

\* the relay returns: Ok, an I/O error, or (SOCKS5 only, socks5.rs:64) the
\* session timeout
task_relay_end ==
    \E c \in DOMAIN tasks, r \in RelayResults :
       /\ tasks[c].pc = "relay"
       /\ r = "deadline has elapsed" => tasks[c].via = "socks5"
       /\ task_end(c, r)
       /\ ListenFrame

run_http_proxy == run_http_proxy_accept \/ run_http_proxy_accept_err

run_socks5_proxy_auth ==
    \/ run_socks5_proxy_auth_accept
    \/ run_socks5_proxy_auth_accept_err
    \/ run_socks5_proxy_auth_sleep
    \/ run_socks5_proxy_auth_admit
    \/ run_socks5_proxy_auth_drop

spawned_task == task_protocol_err \/ task_dial_err \/ task_dial \/ task_relay_end

\* both listeners have bound their sockets and no connection has arrived
InitListen ==
    /\ PeersClose
    /\ SocksIdle
    /\ LogIdle
    /\ HttpIdle
    /\ iface = "en0"
    /\ resolver = {<<>>}
    /\ DialIdle
    /\ listeners = [l \in {"http", "socks5"} |-> Listening]
    /\ sem = max_concurrent_connections
    /\ tasks = <<>>

SpecListen ==
    InitListen /\ [][run_http_proxy \/ run_socks5_proxy_auth \/ spawned_task]_vars

\* the connections accepted by listener l whose handler is running
Running(l) ==
    {c \in DOMAIN tasks : tasks[c].via = l /\ tasks[c].pc \in {"handshake", "relay"}}

\* C23: on every listener at most max_concurrent_connections handlers run
\* at a time; a connection that arrives when that many run is closed with
\* no handler, and stays closed.
C23_AdmissionCap ==
    /\ [](\A l \in DOMAIN listeners :
            Cardinality(Running(l)) <= max_concurrent_connections)
    /\ [][\A c \in DOMAIN tasks :
             tasks[c].pc = "dropped" => tasks'[c] = tasks[c]]_vars

\* task c ends in this step
Ends(c) == tasks[c].pc \in {"handshake", "relay"} /\ tasks'[c].pc = "ended"

\* the tasks that hold a permit
Holders == {c \in DOMAIN tasks : tasks[c].permit}

\* C24: a permit is taken before the handler of a SOCKS5 connection starts
\* and given back once when its task ends, whatever the handler returned:
\* the permits available and the handlers running add up to
\* max_concurrent_connections.
C24_PermitAccounting ==
    /\ [](/\ sem >= 0
          /\ Holders = Running("socks5")
          /\ sem + Cardinality(Running("socks5")) = max_concurrent_connections)
    /\ [][\A c \in DOMAIN tasks :
             (tasks[c].via = "socks5" /\ Ends(c)) => sem' = sem + 1]_vars

\* all permits were taken, a handler has returned an error, and a
\* connection accepted after it holds the permit again
C24_Witness ==
    /\ sem = 0
    /\ \E c \in DOMAIN tasks, d \in DOMAIN tasks :
          /\ c < d
          /\ tasks[c].via = "socks5"
          /\ tasks[c].pc = "ended"
          /\ tasks[c].result = "deadline has elapsed"
          /\ tasks[d].permit

\* the sleep after the n-th accept error in a row
Backoff(n) == Min(50 * 2 ^ n, 1000)

\* C25: the backoff starts at 50 ms, a failed accept sleeps for it and then
\* doubles it up to 1000 ms, a successful accept sets it to 50 ms again, and
\* it always lies in 50..1000.
C25_Backoff ==
    LET l == listeners["socks5"] IN
    /\ l.backoff_ms \in 50..1000
    /\ \A i \in DOMAIN l.slept : l.slept[i] = Backoff(i - 1)
    /\ l.backoff_ms = Backoff(Len(l.slept))
    /\ l.pc = "admit" => l.backoff_ms = 50

\* after an accepted connection the accepts have failed six times in a
\* row, the last sleep at the cap
C25_Witness ==
    /\ tasks # <<>>
    /\ listeners["socks5"].slept = <<50, 100, 200, 400, 800, 1000>>
    /\ listeners["socks5"].backoff_ms = 1000

\* C26: no accept loop, of either front-end, ends on an accept error.
C26_ListenerSurvives ==
    \A l \in DOMAIN listeners : listeners[l].pc # "returned"

\* C28: a handler that fails ends its own task only: the accept loops are
\* where they were, every other task is as it was, and the sockets and the
\* permit of the failed connection are released.
C28_FailureIsolation ==
    /\ [](\A c \in DOMAIN tasks :
            tasks[c].pc = "ended" =>
               ~tasks[c].inbound /\ ~tasks[c].outbound /\ ~tasks[c].permit)
    /\ [][\A c \in DOMAIN tasks :
             Ends(c) =>
                /\ listeners' = listeners
                /\ \A d \in DOMAIN tasks \ {c} : tasks'[d] = tasks[d]
                /\ sem' = IF tasks[c].permit THEN sem + 1 ELSE sem]_vars

\* a handler has failed while an older connection of the same listener is
\* relayed, and a connection accepted after the failure is being handled
C28_Witness ==
    \E c \in DOMAIN tasks, d \in DOMAIN tasks, e \in DOMAIN tasks :
       /\ d < c /\ c < e
       /\ tasks[c].via = tasks[d].via /\ tasks[c].via = tasks[e].via
       /\ tasks[c].pc = "ended" /\ tasks[c].result \notin {"ok", "none"}
       /\ tasks[d].pc = "relay"
       /\ tasks[e].pc = "handshake"
       /\ listeners[tasks[c].via].pc = "accept"

---------------------------------------------------------------------------
(* One accepted connection of either front-end.                            *)

\* the connection was accepted by run_http_proxy
http_connection == sk = <<>> /\ handle_http_proxy

\* the connection was accepted by run_socks5_proxy_auth
socks5_connection == sk # <<>> /\ handle_socks5

InitFront == InitHttp \/ InitSocks

SpecFront ==
    InitFront /\ [][http_connection \/ socks5_connection \/ connect_outbound]_vars

\* connect_outbound has returned an error
DialFailed == dpc = "ret" /\ ~dret.ok

\* C27: when connect_outbound fails, the handler returns without a reply
\* to the request: an HTTP client has received nothing, a SOCKS5 client
\* the replies of the handshake and no more.
C27_NoReplyOnDialFailure ==
    DialFailed =>
       /\ toClient = (IF sk = <<>> THEN <<>> ELSE Prelude)
       /\ hpc \in {"dial", "err"}
       /\ hpc = "err" => herr = dret.err.kind

\* a SOCKS5 client that authenticated asks for a host whose only address
\* cannot be connected; the handler has returned the error of the dial
C27_Witness ==
    /\ DialFailed
    /\ sk # <<>>
    /\ Configured
    /\ addrs # <<>>
    /\ hpc = "err"
    /\ toClient = <<5, 2, 1, 0>>

\* the SOCKS5 handler has read the whole request and accepted it
SocksParsed ==
    /\ hpc \notin UpToCmd
    /\ Consumed >= Len(ClientBytes(req)) - Len(Payload)
    /\ sk.cmd = 1
    /\ dhost = sk.target_host
    /\ dport = sk.target_port

\* the HTTP handler has read the headers to CRLF CRLF and parsed them
HttpParsed ==
    /\ hpc \notin {"read", "parse"}
    /\ has_terminator(buf)
    /\ parsed.ok
    /\ dhost = parsed.host
    /\ dport = parsed.port

\* connect_outbound has returned a connected socket
DialSucceeded == dpc = "ret" /\ dret.ok

\* C38: one connection goes through its steps in order.  The dial starts
\* only when the request has been read and parsed; the success reply
\* (SOCKS5, CONNECT) or the rebuilt preamble (plain HTTP) is written only
\* when the dial has succeeded; and a byte is relayed, in either direction,
\* only after that reply or preamble.
C38_Sequential ==
    IF sk # <<>>
    THEN /\ dpc # "idle" => SocksParsed
         /\ (Len(toClient) > Len(Prelude) \/ toUpstream # <<>>) => DialSucceeded
         /\ (toUpstream # <<>> \/ SocksRelayed # <<>>) =>
                /\ Len(toClient) >= Len(Prelude \o Succeeded)
                /\ Take(toClient, Len(Prelude \o Succeeded)) = Prelude \o Succeeded
    ELSE /\ dpc # "idle" => HttpParsed
         /\ (toClient # <<>> \/ toUpstream # <<>>) => DialSucceeded
         /\ (parsed.connect /\ (toUpstream # <<>> \/ Avail(srv) < Len(Response))) =>
                /\ Len(toClient) >= Len(Established)
                /\ Take(toClient, Len(Established)) = Established
         /\ (~parsed.connect /\ (toUpstream # <<>> \/ Avail(srv) < Len(Response))) =>
                LET rebuilt == as_bytes(rebuild(parsed))
                IN  /\ Len(toUpstream) >= Len(rebuilt)
                    /\ Take(toUpstream, Len(rebuilt)) = rebuilt

\* a plain HTTP request has been forwarded and answered: the dial, the
\* preamble and the relay of both directions have all happened
C38_Witness ==
    /\ sk = <<>>
    /\ HttpParsed
    /\ ~parsed.connect
    /\ DialSucceeded
    /\ hpc = "done"
    /\ Avail(srv) = 0
    /\ Len(toUpstream) > Len(as_bytes(rebuild(parsed)))

\* C29: the port connect_outbound is called with is never 0.
C29_PortRange == dpc # "idle" => dport \in 1..65535

\* C30: in a CONNECT tunnel that has run to its end, upstream has received
\* every byte the client sent after the CRLF CRLF of the preamble.
C30_TunnelBytes ==
    (req.line.kind = "connect" /\ hpc = "done") => toUpstream = req.body

---------------------------------------------------------------------------

\* C34: when connect_outbound returns an error after the resolution, the
\* for loop has come to the last resolved address or past it: no failure
\* on one candidate keeps the later ones from being tried.
C34_AllAddressesTried ==
    (dpc = "ret" /\ ~dret.ok /\ dret.err.kind # "lookup") => sa >= Len(addrs)

\* C35: the second stored in LOG_WINDOW_SEC never decreases.
C35_WindowMonotone == [][LOG_WINDOW_SEC' >= LOG_WINDOW_SEC]_vars

\* second 1 has seen LOGS_PER_SEC calls, one after the other: every one
\* invoked its closure and the next call of the second will be suppressed.
\* Four calls follow, from any thread and across the seconds.
InitLogFull ==
    /\ PeersClose
    /\ ListenIdle
    /\ SocksIdle
    /\ HttpIdle
    /\ iface = "en0"
    /\ resolver = {<<>>}
    /\ DialIdle
    /\ clock = 1
    /\ LOG_WINDOW_SEC = 1
    /\ LOG_COUNT = LOGS_PER_SEC
    /\ LOG_SUPPRESSED = 0
    /\ callers = [t \in Threads |-> Idle]
    /\ emitted = [calls |-> MaxCalls - 4,
                  at |-> [s \in 1..MaxClock |->
                             IF s = 1 THEN LOGS_PER_SEC ELSE 0],
                  wins |-> [s \in 1..MaxClock |-> IF s = 1 THEN 1 ELSE 0],
                  lines |-> <<>>,
                  dropped |-> [s \in 1..MaxClock |-> 0]]

SpecLogFull == InitLogFull /\ [][log_throttled \/ tick]_vars

\* the sum of f[1], .., f[n]
RECURSIVE SumTo(_, _)
SumTo(f, n) == IF n = 0 THEN 0 ELSE f[n] + SumTo(f, n - 1)

\* the closures invoked, the calls suppressed, and the N of the
\* "suppressed N" lines written
Emits == SumTo(emitted.at, Len(emitted.at))
Drops == SumTo(emitted.dropped, Len(emitted.dropped))
Reported == SumTo([i \in DOMAIN emitted.lines |-> emitted.lines[i].n],
                  Len(emitted.lines))

\* the callers that return from log_throttled in this step
Returning == {t \in Threads : callers[t].pc # "idle" /\ callers'[t].pc = "idle"}

---------------------------------------------------------------------------

\* C31: with credentials configured, connect_outbound is called and bytes
\* are relayed only after the handler answered 01 00 to a subnegotiation
\* that carried the configured user and pass.
C31_AuthBeforeDial ==
    (Configured /\ (dpc # "idle" \/ toUpstream # <<>> \/ SocksRelayed # <<>>)) =>
       /\ Len(toClient) >= 4
       /\ SubSeq(toClient, 1, 4) = <<5, 2, 1, 0>>
       /\ Subnegotiated
       /\ SameCredentials

\* the client that presented u and p has had its bytes relayed to the end
C31_Witness ==
    /\ Configured
    /\ SameCredentials
    /\ hpc = "done"
    /\ toUpstream = Payload
    /\ SocksRelayed = SocksResponse

\* C32: with no credentials configured, a greeting of version 5 is answered
\* 05 00 whatever methods it lists, and the handler goes on to read the
\* request.
C32_NoAuthReply ==
    (~Configured /\ req.greet.ver = 5) =>
       /\ toClient # <<>> => SubSeq(toClient, 1, 2) = <<5, 0>>
       /\ (hpc \notin UpToSelect \cup {"err"}) => toClient # <<>>
       /\ (hpc = "err" /\ toClient = <<>>) =>
             herr \in {"read timeout", "early eof", "write failed"}

\* a greeting that lists no method at all, and the tunnel is up
C32_Witness ==
    /\ ~Configured
    /\ req.greet = Greeting(5, <<>>)
    /\ hpc = "relay"
    /\ toClient = <<5, 0>> \o Succeeded

\* C33: with exactly one of user and pass configured the method 0x02 is
\* required, every subnegotiation is answered 01 01 and the handler never
\* comes to read the request.
C33_HalfConfigured ==
    (creds.user.some # creds.pass.some) =>
       /\ hpc \in UpToAuth \cup {"err"}
       /\ dpc = "idle"
       /\ toClient \in {<<>>, <<5, 255>>, <<5, 2>>, <<5, 2, 1, 1>>}

\* only pass is configured; the client sent an empty username and that
\* password, and was refused
C33_Witness ==
    /\ ~creds.user.some
    /\ creds.pass.some
    /\ req.auth = Auth(1, "", "p")
    /\ toClient = <<5, 2, 1, 1>>
    /\ herr = "invalid username/password"

====
